---------------------------- MODULE Spec2Model ----------------------------
(***************************************************************************)
(* Specbridge: OpenAPI documents compiled into tools, and tool invocations *)
(* turned into HTTP requests.                                              *)
(*                                                                         *)
(* A JavaScript string is a sequence of one-character strings, so that     *)
(* the conversions of the code (lower-casing, splitting, regular           *)
(* expression replacement, percent-encoding, base64, JSON.stringify) are   *)
(* computed character by character.  A JavaScript value is a one-field     *)
(* record whose field name is its type: [undef |-> TRUE], [null |-> TRUE], *)
(* [str |-> chars], [num |-> decimal digits], [bool |-> b],                *)
(* [arr |-> <<values>>], [obj |-> << <<key, value>> >>] (insertion order). *)
(***************************************************************************)
EXTENDS Integers, Sequences, FiniteSets, TLC

----------------------------------------------------------------------------
(* Characters *)

\* The printable ASCII characters, code 32 first (code 96 is written "<backtick>").
Printable == <<" ","!","\"","#","$","%","&","'","(",")","*","+",",","-",".","/","0","1","2","3","4","5","6","7","8","9",":",";","<","=",">","?","@","A","B","C","D","E","F","G","H","I","J","K","L","M","N","O","P","Q","R","S","T","U","V","W","X","Y","Z","[","\\","]","^","_","<backtick>","a","b","c","d","e","f","g","h","i","j","k","l","m","n","o","p","q","r","s","t","u","v","w","x","y","z","{","|","}","~">>

UpperLetters == <<"A","B","C","D","E","F","G","H","I","J","K","L","M","N","O","P","Q","R","S","T","U","V","W","X","Y","Z">>

LowerLetters == <<"a","b","c","d","e","f","g","h","i","j","k","l","m","n","o","p","q","r","s","t","u","v","w","x","y","z">>

DigitChars == <<"0","1","2","3","4","5","6","7","8","9">>

Range(s) == {s[i] : i \in DOMAIN s}

\* The code unit of a printable character (String.prototype.charCodeAt).
CharCode(c) == 31 + (CHOOSE i \in DOMAIN Printable : Printable[i] = c)

IsAlnum(c) == c \in Range(UpperLetters) \cup Range(LowerLetters) \cup Range(DigitChars)

LowerChar(c) ==
  IF c \in Range(UpperLetters)
  THEN LowerLetters[CHOOSE i \in DOMAIN UpperLetters : UpperLetters[i] = c]
  ELSE c

UpperChar(c) ==
  IF c \in Range(LowerLetters)
  THEN UpperLetters[CHOOSE i \in DOMAIN LowerLetters : LowerLetters[i] = c]
  ELSE c

----------------------------------------------------------------------------
(* String.prototype methods *)

toLowerCase(s) == [i \in DOMAIN s |-> LowerChar(s[i])]

toUpperCase(s) == [i \in DOMAIN s |-> UpperChar(s[i])]

startsWith(s, p) == Len(p) <= Len(s) /\ SubSeq(s, 1, Len(p)) = p

endsWith(s, p) == Len(p) <= Len(s) /\ SubSeq(s, Len(s) - Len(p) + 1, Len(s)) = p

\* The position of the first occurrence of p in s, 0 when there is none.
indexOf(s, p) ==
  LET hits == {i \in 1..(Len(s) - Len(p) + 1) : SubSeq(s, i, i + Len(p) - 1) = p}
  IN IF hits = {} THEN 0 ELSE CHOOSE i \in hits : \A j \in hits : i <= j

includes(s, p) == indexOf(s, p) # 0

\* The position of the last occurrence of character c in s, 0 when there is none.
lastIndexOf(s, c) ==
  LET hits == {i \in DOMAIN s : s[i] = c}
  IN IF hits = {} THEN 0 ELSE CHOOSE i \in hits : \A j \in hits : j <= i

\* s.replace(p, r) with a string pattern: the first occurrence only.
replaceFirst(s, p, r) ==
  LET i == indexOf(s, p)
  IN IF i = 0 THEN s
     ELSE SubSeq(s, 1, i - 1) \o r \o SubSeq(s, i + Len(p), Len(s))

\* s.split(c) for a one-character separator: empty segments are kept.
RECURSIVE split(_, _)
split(s, c) ==
  LET i == indexOf(s, <<c>>)
  IN IF i = 0 THEN <<s>>
     ELSE <<SubSeq(s, 1, i - 1)>> \o split(SubSeq(s, i + 1, Len(s)), c)

\* parts.join(sep)
RECURSIVE join(_, _)
join(parts, sep) ==
  IF parts = <<>> THEN <<>>
  ELSE IF Len(parts) = 1 THEN parts[1]
  ELSE parts[1] \o sep \o join(Tail(parts), sep)

----------------------------------------------------------------------------
(* JavaScript values and conversions *)

Undefined == [undef |-> TRUE]

Null == [null |-> TRUE]

Str(s) == [str |-> s]

Num(digits) == [num |-> digits]

Bool(b) == [bool |-> b]

IsUndefined(v) == "undef" \in DOMAIN v

IsNull(v) == "null" \in DOMAIN v

IsString(v) == "str" \in DOMAIN v

\* ToBoolean: what `if (v)`, `!v` and `v || w` test.
Truthy(v) ==
  CASE "undef" \in DOMAIN v -> FALSE
    [] "null" \in DOMAIN v -> FALSE
    [] "str" \in DOMAIN v -> v.str # <<>>
    [] "num" \in DOMAIN v -> v.num \notin {<<"0">>, <<"-","0">>, <<"N","a","N">>}
    [] "bool" \in DOMAIN v -> v.bool
    [] OTHER -> TRUE

\* a || b
OrElse(a, b) == IF Truthy(a) THEN a ELSE b

\* String(v), also what a template literal ${v} inserts.
RECURSIVE String(_)
String(v) ==
  CASE "str" \in DOMAIN v -> v.str
    [] "num" \in DOMAIN v -> v.num
    [] "bool" \in DOMAIN v -> IF v.bool THEN <<"t","r","u","e">> ELSE <<"f","a","l","s","e">>
    [] "null" \in DOMAIN v -> <<"n","u","l","l">>
    [] "undef" \in DOMAIN v -> <<"u","n","d","e","f","i","n","e","d">>
    [] "arr" \in DOMAIN v ->
         join([i \in DOMAIN v.arr |->
                 IF IsNull(v.arr[i]) \/ IsUndefined(v.arr[i]) THEN <<>> ELSE String(v.arr[i])],
              <<",">>)
    [] OTHER -> <<"[","o","b","j","e","c","t"," ","O","b","j","e","c","t","]">>

HexDigits == <<"0","1","2","3","4","5","6","7","8","9","A","B","C","D","E","F">>

CodeOf(c) == IF c = "\n" THEN 10 ELSE CharCode(c)

\* Characters encodeURIComponent leaves as they are.
UriUnreserved == {c \in Range(Printable) : IsAlnum(c)} \cup Range(<<"-","_",".","!","~","*","'","(",")">>)

PercentEncode(c) ==
  IF c \in UriUnreserved THEN <<c>>
  ELSE <<"%", HexDigits[(CodeOf(c) \div 16) + 1], HexDigits[(CodeOf(c) % 16) + 1]>>

RECURSIVE encodeURIComponent(_)
encodeURIComponent(s) ==
  IF s = <<>> THEN <<>> ELSE PercentEncode(Head(s)) \o encodeURIComponent(Tail(s))

\* A surrogate code unit without its partner; no printable character stands for it.
LoneSurrogate == "U+D800"

\* encodeURIComponent throws URIError("URI malformed") on a lone surrogate.
encodeURIComponentThrows(s) == LoneSurrogate \in Range(s)

Base64Alphabet == <<"A","B","C","D","E","F","G","H","I","J","K","L","M","N","O","P","Q","R","S","T","U","V","W","X","Y","Z","a","b","c","d","e","f","g","h","i","j","k","l","m","n","o","p","q","r","s","t","u","v","w","x","y","z","0","1","2","3","4","5","6","7","8","9","+","/">>

\* Buffer.from(s).toString('base64') for ASCII text: three bytes give four digits.
RECURSIVE base64(_)
base64(s) ==
  IF s = <<>> THEN <<>>
  ELSE LET n  == IF Len(s) >= 3 THEN 3 ELSE Len(s)
           b1 == CodeOf(s[1])
           b2 == IF n >= 2 THEN CodeOf(s[2]) ELSE 0
           b3 == IF n >= 3 THEN CodeOf(s[3]) ELSE 0
           w  == b1 * 65536 + b2 * 256 + b3
           d(k) == Base64Alphabet[((w \div (64 ^ (4 - k))) % 64) + 1]
       IN <<d(1), d(2), IF n >= 2 THEN d(3) ELSE "=", IF n >= 3 THEN d(4) ELSE "=">>
          \o base64(SubSeq(s, n + 1, Len(s)))

Spaces(n) == [i \in 1..n |-> " "]

JsonEscape(c) ==
  CASE c = "\"" -> <<"\\","\"">>
    [] c = "\\" -> <<"\\","\\">>
    [] c = "\n" -> <<"\\","n">>
    [] OTHER -> <<c>>

RECURSIVE JsonQuoteBody(_)
JsonQuoteBody(s) ==
  IF s = <<>> THEN <<>> ELSE JsonEscape(Head(s)) \o JsonQuoteBody(Tail(s))

JsonQuote(s) == <<"\"">> \o JsonQuoteBody(s) \o <<"\"">>

\* JSON.stringify(v, null, 2) below the top level, at indentation ind.
RECURSIVE JsonText(_, _)
JsonText(v, ind) ==
  CASE "str" \in DOMAIN v -> JsonQuote(v.str)
    [] "num" \in DOMAIN v -> v.num
    [] "bool" \in DOMAIN v -> IF v.bool THEN <<"t","r","u","e">> ELSE <<"f","a","l","s","e">>
    [] "null" \in DOMAIN v -> <<"n","u","l","l">>
    [] "undef" \in DOMAIN v -> <<"n","u","l","l">>
    [] "arr" \in DOMAIN v ->
         IF v.arr = <<>> THEN <<"[","]">>
         ELSE <<"[","\n">>
              \o join([i \in DOMAIN v.arr |-> Spaces(ind + 2) \o JsonText(v.arr[i], ind + 2)], <<",","\n">>)
              \o <<"\n">> \o Spaces(ind) \o <<"]">>
    [] OTHER ->
         LET kept == SelectSeq(v.obj, LAMBDA e : ~IsUndefined(e[2]))
         IN IF kept = <<>> THEN <<"{","}">>
            ELSE <<"{","\n">>
                 \o join([i \in DOMAIN kept |->
                           Spaces(ind + 2) \o JsonQuote(kept[i][1]) \o <<":"," ">>
                           \o JsonText(kept[i][2], ind + 2)], <<",","\n">>)
                 \o <<"\n">> \o Spaces(ind) \o <<"}">>

\* JSON.stringify(v, null, 2): undefined for undefined, a string otherwise.
JSONstringify(v) == IF IsUndefined(v) THEN Undefined ELSE Str(JsonText(v, 0))

----------------------------------------------------------------------------
(* Node's path module, POSIX flavour *)

\* The segments of an absolute path with "." and empty segments dropped and each
\* ".." taking the segment before it along; resolved holds the segments kept so far.
RECURSIVE NormalSegments(_, _)
NormalSegments(segments, resolved) ==
  IF segments = <<>> THEN resolved
  ELSE LET segment == Head(segments)
       IN NormalSegments(Tail(segments),
            IF segment = <<>> \/ segment = <<".">> THEN resolved
            ELSE IF segment = <<".",".">>
                 THEN (IF resolved = <<>> THEN resolved ELSE SubSeq(resolved, 1, Len(resolved) - 1))
                 ELSE Append(resolved, segment))

\* path.normalize(p) for an absolute path without a trailing "/".
pathNormalize(p) ==
  LET segments == NormalSegments(split(p, "/"), <<>>)
  IN <<"/">> \o join(segments, <<"/">>)

\* path.resolve(p) for an absolute path.
pathResolve(p) == pathNormalize(p)

\* path.join(dir, file) for an absolute directory.
pathJoin(dir, file) == pathNormalize(dir \o <<"/">> \o file)

\* path.basename(p): what follows the last "/".
basename(p) == SubSeq(p, lastIndexOf(p, "/") + 1, Len(p))

\* path.extname(p): from the last "." of the base name, "" when there is none or
\* when it is the first character of the base name.
extname(p) ==
  LET base == basename(p)
      dot  == lastIndexOf(base, ".")
  IN IF dot <= 1 \/ base = <<".",".">> THEN <<>> ELSE SubSeq(base, dot, Len(base))

\* path.basename(p, ext): the base name without ext, unless ext is all of it.
basenameExt(p, ext) ==
  LET base == basename(p)
  IN IF ext # <<>> /\ base # ext /\ endsWith(base, ext)
     THEN SubSeq(base, 1, Len(base) - Len(ext))
     ELSE base

----------------------------------------------------------------------------
(* src/utils/auth.ts *)

NotDashOrUnderscore(c) == c \notin {"-", "_"}

\* getApiNameFromFile without the removal of "-" and "_".
getApiNameFromFile_KeepsSeparators(filePath) ==
  toLowerCase(basenameExt(filePath, extname(filePath)))

\* getApiNameFromFile without the lowercasing.
getApiNameFromFile_KeepsCase(filePath) ==
  SelectSeq(basenameExt(filePath, extname(filePath)), NotDashOrUnderscore)

getApiNameFromFile(filePath) ==
  LET fileName == basenameExt(filePath, extname(filePath))
  IN SelectSeq(toLowerCase(fileName), NotDashOrUnderscore)

\* key.match(/^(.+)<suffix>$/): the captured group, <<>> when there is no match.
MatchSuffix(key, suffix) ==
  IF Len(key) > Len(suffix) /\ endsWith(key, suffix)
  THEN SubSeq(key, 1, Len(key) - Len(suffix))
  ELSE <<>>

\* The apiName, authType and configKey one environment key gives; apiName is <<>>
\* when no pattern matches.
AuthPattern(key) ==
  LET apiKeyMatch    == MatchSuffix(key, <<"_","A","P","I","_","K","E","Y">>)
      tokenMatch     == MatchSuffix(key, <<"_","T","O","K","E","N">>)
      bearerMatch    == MatchSuffix(key, <<"_","B","E","A","R","E","R","_","T","O","K","E","N">>)
      basicUserMatch == MatchSuffix(key, <<"_","U","S","E","R","N","A","M","E">>)
      basicPassMatch == MatchSuffix(key, <<"_","P","A","S","S","W","O","R","D">>)
  IN IF bearerMatch # <<>>
     THEN [apiName |-> toLowerCase(bearerMatch), authType |-> <<"b","e","a","r","e","r">>, configKey |-> "token"]
     ELSE IF apiKeyMatch # <<>>
     THEN [apiName |-> toLowerCase(apiKeyMatch), authType |-> <<"a","p","i","K","e","y">>, configKey |-> "token"]
     ELSE IF tokenMatch # <<>> /\ ~includes(key, <<"B","E","A","R","E","R">>)
     THEN [apiName |-> toLowerCase(tokenMatch), authType |-> <<"b","e","a","r","e","r">>, configKey |-> "token"]
     ELSE IF basicUserMatch # <<>>
     THEN [apiName |-> toLowerCase(basicUserMatch), authType |-> <<"b","a","s","i","c">>, configKey |-> "username"]
     ELSE IF basicPassMatch # <<>>
     THEN [apiName |-> toLowerCase(basicPassMatch), authType |-> <<"b","a","s","i","c">>, configKey |-> "password"]
     ELSE [apiName |-> <<>>, authType |-> <<>>, configKey |-> ""]

\* { type: authType }
NewDescriptor(authType) ==
  [type |-> Str(authType), token |-> Undefined, headerName |-> Undefined,
   username |-> Undefined, password |-> Undefined]

\* The default header name in lower case.
DefaultApiKeyHeader_LowerCase == <<"x","-","a","p","i","-","k","e","y">>

DefaultApiKeyHeader == <<"X","-","A","P","I","-","K","e","y">>

\* authConfig[apiName]
AuthLookup(authConfig, apiName) ==
  IF apiName \in DOMAIN authConfig THEN [desc |-> authConfig[apiName]] ELSE Undefined

\* One iteration of the loop in which the kind of the entry at hand is stored
\* whatever kind the descriptor had.
ScanEntry_KindOfLastEntry(authConfig, key, value) ==
  LET m == AuthPattern(key)
  IN IF value = <<>> \/ m.apiName = <<>> THEN authConfig
     ELSE LET d0 == IF Truthy(AuthLookup(authConfig, m.apiName))
                    THEN authConfig[m.apiName]
                    ELSE NewDescriptor(m.authType)
              d1 == [d0 EXCEPT !.type = Str(m.authType)]
              d2 == [d1 EXCEPT ![m.configKey] = Str(value)]
              d3 == IF m.authType = <<"a","p","i","K","e","y">> /\ ~Truthy(d2.headerName)
                    THEN [d2 EXCEPT !.headerName = Str(DefaultApiKeyHeader)]
                    ELSE d2
          IN (m.apiName :> d3) @@ authConfig

\* One iteration of the loop over Object.entries(process.env).
ScanEntry(authConfig, key, value) ==
  LET m == AuthPattern(key)
  IN IF value = <<>> \/ m.apiName = <<>> THEN authConfig
     ELSE LET d0 == IF Truthy(AuthLookup(authConfig, m.apiName))
                    THEN authConfig[m.apiName]
                    ELSE NewDescriptor(m.authType)
              d1 == IF m.authType = <<"b","e","a","r","e","r">> /\ d0.type # Str(<<"b","e","a","r","e","r">>)
                    THEN [d0 EXCEPT !.type = Str(m.authType)]
                    ELSE d0
              d2 == [d1 EXCEPT ![m.configKey] = Str(value)]
              d3 == IF m.authType = <<"a","p","i","K","e","y">> /\ ~Truthy(d2.headerName)
                    THEN [d2 EXCEPT !.headerName = Str(DefaultApiKeyHeader)]
                    ELSE d2
          IN (m.apiName :> d3) @@ authConfig

EmptyMap == [x \in {} |-> <<>>]

RECURSIVE ScanEnv(_, _)
ScanEnv(authConfig, entries) ==
  IF entries = <<>> THEN authConfig
  ELSE ScanEnv(ScanEntry(authConfig, entries[1][1], entries[1][2]), Tail(entries))

\* dotenv's config({ path }): the entries of the file whose key the process
\* environment does not hold yet are appended to it; nothing is overridden.
dotenvConfig(env, file) ==
  env \o SelectSeq(file, LAMBDA e : \A i \in DOMAIN env : env[i][1] # e[1])

\* The process environment loadAuthConfig leaves behind; file is [exists, entries].
loadAuthConfigEnv(env, file) ==
  IF file.exists THEN dotenvConfig(env, file.entries) ELSE env

\* The map loadAuthConfig returns.
loadAuthConfig(env, file) == ScanEnv(EmptyMap, loadAuthConfigEnv(env, file))

SetHeader(headers, name, value) == (name :> value) @@ headers

\* applyAuthentication without the test of the bearer token.
applyAuthentication_BearerWithoutTest(headers, authConfig) ==
  IF ~Truthy(authConfig) THEN headers
  ELSE IF authConfig.desc.type = Str(<<"b","e","a","r","e","r">>)
  THEN SetHeader(headers, <<"A","u","t","h","o","r","i","z","a","t","i","o","n">>, <<"B","e","a","r","e","r"," ">> \o String(authConfig.desc.token))
  ELSE IF authConfig.desc.type = Str(<<"a","p","i","K","e","y">>)
          /\ Truthy(authConfig.desc.token) /\ Truthy(authConfig.desc.headerName)
  THEN SetHeader(headers, String(authConfig.desc.headerName), String(authConfig.desc.token))
  ELSE IF authConfig.desc.type = Str(<<"b","a","s","i","c">>)
          /\ Truthy(authConfig.desc.username) /\ Truthy(authConfig.desc.password)
  THEN SetHeader(headers, <<"A","u","t","h","o","r","i","z","a","t","i","o","n">>,
                 <<"B","a","s","i","c"," ">> \o base64(String(authConfig.desc.username) \o <<":">>
                                      \o String(authConfig.desc.password)))
  ELSE headers

\* applyAuthentication with the basic credentials left unencoded.
applyAuthentication_BasicUnencoded(headers, authConfig) ==
  IF ~Truthy(authConfig) THEN headers
  ELSE IF authConfig.desc.type = Str(<<"b","e","a","r","e","r">>) /\ Truthy(authConfig.desc.token)
  THEN SetHeader(headers, <<"A","u","t","h","o","r","i","z","a","t","i","o","n">>, <<"B","e","a","r","e","r"," ">> \o String(authConfig.desc.token))
  ELSE IF authConfig.desc.type = Str(<<"a","p","i","K","e","y">>)
          /\ Truthy(authConfig.desc.token) /\ Truthy(authConfig.desc.headerName)
  THEN SetHeader(headers, String(authConfig.desc.headerName), String(authConfig.desc.token))
  ELSE IF authConfig.desc.type = Str(<<"b","a","s","i","c">>)
          /\ Truthy(authConfig.desc.username) /\ Truthy(authConfig.desc.password)
  THEN SetHeader(headers, <<"A","u","t","h","o","r","i","z","a","t","i","o","n">>,
                 <<"B","a","s","i","c"," ">> \o String(authConfig.desc.username) \o <<":">>
                           \o String(authConfig.desc.password))
  ELSE headers

\* authConfig is AuthLookup's result: Undefined or [desc |-> descriptor].
applyAuthentication(headers, authConfig) ==
  IF ~Truthy(authConfig) THEN headers
  ELSE LET d == authConfig.desc
       IN CASE d.type = Str(<<"b","e","a","r","e","r">>) ->
                 IF Truthy(d.token)
                 THEN SetHeader(headers, <<"A","u","t","h","o","r","i","z","a","t","i","o","n">>, <<"B","e","a","r","e","r"," ">> \o String(d.token))
                 ELSE headers
            [] d.type = Str(<<"a","p","i","K","e","y">>) ->
                 IF Truthy(d.token) /\ Truthy(d.headerName)
                 THEN SetHeader(headers, String(d.headerName), String(d.token))
                 ELSE headers
            [] d.type = Str(<<"b","a","s","i","c">>) ->
                 IF Truthy(d.username) /\ Truthy(d.password)
                 THEN SetHeader(headers, <<"A","u","t","h","o","r","i","z","a","t","i","o","n">>,
                                <<"B","a","s","i","c"," ">> \o base64(String(d.username) \o <<":">> \o String(d.password)))
                 ELSE headers
            [] OTHER -> headers

----------------------------------------------------------------------------
(* src/utils/openapi-parser.ts                                             *)
(*                                                                         *)
(* A document is [servers |-> <<urls>>, paths |-> Undefined or             *)
(* [entries |-> << <<pathTemplate, pathItem>> >>]].  A path item is a      *)
(* non-object value or [item |-> [ops |-> [method -> operation],           *)
(* parameters |-> params]]; an operation is Undefined or [op |-> record];  *)
(* params is Undefined, [list |-> <<entries>>] or a value that cannot be   *)
(* spread; a parameter entry is a primitive value, [ref |-> target] or     *)
(* [param |-> record].                                                     *)

\* The method list without "head".
methods_WithoutHead == <<<<"g","e","t">>, <<"p","o","s","t">>, <<"p","u","t">>, <<"p","a","t","c","h">>, <<"d","e","l","e","t","e">>, <<"o","p","t","i","o","n","s">>>>

methods == <<<<"g","e","t">>, <<"p","o","s","t">>, <<"p","u","t">>, <<"p","a","t","c","h">>, <<"d","e","l","e","t","e">>, <<"h","e","a","d">>, <<"o","p","t","i","o","n","s">>>>

RECURSIVE Flatten(_)
Flatten(seqs) == IF seqs = <<>> THEN <<>> ELSE Head(seqs) \o Flatten(Tail(seqs))

FallbackBaseUrl == <<"h","t","t","p","s",":","/","/","a","p","i",".","e","x","a","m","p","l","e",".","c","o","m">>

getBaseUrl(spec) ==
  IF Len(spec.servers) > 0 THEN spec.servers[1] ELSE FallbackBaseUrl

IsParamObject(e) == "ref" \in DOMAIN e \/ "param" \in DOMAIN e

\* ...(params || []) throws for a truthy value that is not iterable.
SpreadThrows(params) == Truthy(params) /\ "list" \notin DOMAIN params

Spread(params) == IF Truthy(params) THEN params.list ELSE <<>>

\* '$ref' in paramRef throws a TypeError for a primitive.
ExtractThrows(paramRefs) == \E i \in DOMAIN paramRefs : ~IsParamObject(paramRefs[i])

\* ExtractOne with required taken as declared, by location only when undeclared.
ExtractOne_RequiredAsDeclared(paramRef) ==
  IF "ref" \in DOMAIN paramRef THEN <<>>
  ELSE LET param == paramRef.param
       IN IF Truthy(param.in) /\ Truthy(param.name) /\ Truthy(param.schema)
          THEN << [name        |-> String(param.name),
                   in          |-> String(param.in),
                   required    |-> IF param.required \in {Bool(TRUE), Bool(FALSE)} THEN param.required
                                   ELSE Bool(param.in = Str(<<"p","a","t","h">>)),
                   schema      |-> param.schema,
                   description |-> param.description] >>
          ELSE <<>>

ExtractOne(paramRef) ==
  IF "ref" \in DOMAIN paramRef THEN <<>>
  ELSE LET param == paramRef.param
       IN IF Truthy(param.in) /\ Truthy(param.name) /\ Truthy(param.schema)
          THEN << [name        |-> String(param.name),
                   in          |-> String(param.in),
                   required    |-> OrElse(param.required, Bool(param.in = Str(<<"p","a","t","h">>))),
                   schema      |-> param.schema,
                   description |-> param.description] >>
          ELSE <<>>

extractParameters(paramRefs) ==
  Flatten([i \in DOMAIN paramRefs |-> ExtractOne(paramRefs[i])])

NonAlnumStripped(part) == SelectSeq(part, IsAlnum)

\* KeepPart without the test for a parameter segment.
KeepPart_KeepsBraced(part) == part # <<>>

KeepPart(part) == part # <<>> /\ ~startsWith(part, <<"{">>)

\* generateToolName with the operationId sanitized like a path segment.
generateToolName_SanitizedId(apiName, operation, pathTemplate, method) ==
  IF Truthy(operation.operationId)
  THEN apiName \o <<"_">> \o NonAlnumStripped(String(operation.operationId))
  ELSE apiName \o <<"_">> \o method \o <<"_">> \o <<"r","o","o","t">>

generateToolName(apiName, operation, pathTemplate, method) ==
  IF Truthy(operation.operationId)
  THEN apiName \o <<"_">> \o String(operation.operationId)
  ELSE LET kept      == SelectSeq(split(pathTemplate, "/"), KeepPart)
           pathParts == [i \in DOMAIN kept |-> NonAlnumStripped(kept[i])]
           pathName  == String(OrElse(Str(join(pathParts, <<"_">>)), Str(<<"r","o","o","t">>)))
       IN apiName \o <<"_">> \o method \o <<"_">> \o pathName

\* createToolFromOperation with the operation's parameters ahead of the path's.
createToolFromOperation_OperationLevelFirst(apiName, pathTemplate, method, operation, baseUrl, pathLevelParams) ==
  IF SpreadThrows(pathLevelParams) \/ SpreadThrows(operation.parameters)
  THEN Null
  ELSE LET allParams == Spread(operation.parameters) \o Spread(pathLevelParams)
       IN IF ExtractThrows(allParams) THEN Null
          ELSE [tool |->
                 [name        |-> generateToolName(apiName, operation, pathTemplate, method),
                  description |-> String(OrElse(operation.summary,
                                         OrElse(operation.description,
                                                Str(toUpperCase(method) \o <<" ">> \o pathTemplate)))),
                  operationId |-> operation.operationId,
                  method      |-> toUpperCase(method),
                  path        |-> pathTemplate,
                  parameters  |-> extractParameters(allParams),
                  requestBody |-> operation.requestBody,
                  baseUrl     |-> baseUrl]]

\* Null when the body of the try block throws, [tool |-> GeneratedTool] otherwise.
createToolFromOperation(apiName, pathTemplate, method, operation, baseUrl, pathLevelParams) ==
  IF SpreadThrows(pathLevelParams) \/ SpreadThrows(operation.parameters)
  THEN Null
  ELSE LET allParams == Spread(pathLevelParams) \o Spread(operation.parameters)
       IN IF ExtractThrows(allParams) THEN Null
          ELSE [tool |->
                 [name        |-> generateToolName(apiName, operation, pathTemplate, method),
                  description |-> String(OrElse(operation.summary,
                                         OrElse(operation.description,
                                                Str(toUpperCase(method) \o <<" ">> \o pathTemplate)))),
                  operationId |-> operation.operationId,
                  method      |-> toUpperCase(method),
                  path        |-> pathTemplate,
                  parameters  |-> extractParameters(allParams),
                  requestBody |-> operation.requestBody,
                  baseUrl     |-> baseUrl]]

IsPathItemObject(pathItem) == "item" \in DOMAIN pathItem

\* The inner loop of generateToolsFromSpec: the tools of one path entry.
ToolsOfPathItem(apiName, pathTemplate, pathItem, baseUrl) ==
  IF ~IsPathItemObject(pathItem) THEN <<>>
  ELSE Flatten([k \in DOMAIN methods |->
         LET operation == pathItem.item.ops[methods[k]]
         IN IF ~Truthy(operation) THEN <<>>
            ELSE LET tool == createToolFromOperation(apiName, pathTemplate, methods[k],
                                                     operation.op, baseUrl,
                                                     pathItem.item.parameters)
                 IN IF Truthy(tool) THEN <<tool.tool>> ELSE <<>>])

generateToolsFromSpec(spec, apiName) ==
  IF ~Truthy(spec.paths) THEN <<>>
  ELSE LET entries == spec.paths.entries
       IN Flatten([i \in DOMAIN entries |->
                    ToolsOfPathItem(apiName, entries[i][1], entries[i][2], getBaseUrl(spec))])

\* content is what SwaggerParser.validate makes of the file: [invalid |-> TRUE]
\* when it throws, [doc |-> document] otherwise.  The result is Null or
\* [parsed |-> ParsedSpec]; the ParsedSpec's copy of the document is left out.
parseOpenAPISpec(filePath, content) ==
  IF "invalid" \in DOMAIN content THEN Null
  ELSE LET apiName == getApiNameFromFile(filePath)
       IN [parsed |-> [apiName  |-> apiName,
                       filePath |-> filePath,
                       tools    |-> generateToolsFromSpec(content.doc, apiName)]]

OpenAPIExtensions == {<<".","j","s","o","n">>, <<".","y","a","m","l">>, <<".","y","m","l">>}

skipFiles == {<<"p","a","c","k","a","g","e",".","j","s","o","n">>, <<"p","a","c","k","a","g","e","-","l","o","c","k",".","j","s","o","n">>, <<"t","s","c","o","n","f","i","g",".","j","s","o","n">>, <<".","e","s","l","i","n","t","r","c",".","j","s","o","n">>,
              <<"j","e","s","t",".","c","o","n","f","i","g",".","j","s","o","n">>, <<"w","e","b","p","a","c","k",".","c","o","n","f","i","g",".","j","s">>, <<"r","o","l","l","u","p",".","c","o","n","f","i","g",".","j","s">>}

isOpenAPIFile(filePath) ==
  LET ext      == toLowerCase(extname(filePath))
      filename == toLowerCase(basename(filePath))
  IN ext \in OpenAPIExtensions /\ filename \notin skipFiles

----------------------------------------------------------------------------
(* src/utils/http-client.ts                                                *)
(*                                                                         *)
(* The arguments of a call are a JavaScript object, [obj |-> pairs].       *)

\* obj[key]
Get(obj, key) ==
  IF \E i \in DOMAIN obj.obj : obj.obj[i][1] = key
  THEN obj.obj[CHOOSE i \in DOMAIN obj.obj : obj.obj[i][1] = key][2]
  ELSE Undefined

\* baseUrl.replace(/\/$/, '')
StripTrailingSlash(s) == IF endsWith(s, <<"/">>) THEN SubSeq(s, 1, Len(s) - 1) ELSE s

\* The loop of buildUrl over tool.parameters.
RECURSIVE ReplacePathParameters(_, _, _)
ReplacePathParameters(url, parameters, args) ==
  IF parameters = <<>> THEN url
  ELSE LET param == Head(parameters)
           next  == IF param.in = <<"p","a","t","h">> /\ ~IsUndefined(Get(args, param.name))
                    THEN replaceFirst(url, <<"{">> \o param.name \o <<"}">>,
                                      encodeURIComponent(String(Get(args, param.name))))
                    ELSE url
       IN ReplacePathParameters(next, Tail(parameters), args)

buildUrl(tool, args) ==
  ReplacePathParameters(StripTrailingSlash(tool.baseUrl) \o tool.path, tool.parameters, args)

\* buildUrl throws when encodeURIComponent does: the argument of a path parameter is
\* encoded whether or not its placeholder occurs in the URL.
buildUrlThrows(tool, args) ==
  \E i \in DOMAIN tool.parameters :
     /\ tool.parameters[i].in = <<"p","a","t","h">>
     /\ ~IsUndefined(Get(args, tool.parameters[i].name))
     /\ encodeURIComponentThrows(String(Get(args, tool.parameters[i].name)))

RECURSIVE addHeaderParameters(_, _, _)
addHeaderParameters(parameters, args, headers) ==
  IF parameters = <<>> THEN headers
  ELSE LET param == Head(parameters)
           next  == IF param.in = <<"h","e","a","d","e","r">> /\ ~IsUndefined(Get(args, param.name))
                    THEN SetHeader(headers, param.name, String(Get(args, param.name)))
                    ELSE headers
       IN addHeaderParameters(Tail(parameters), args, next)

RECURSIVE QueryParameters(_, _, _)
QueryParameters(parameters, args, params) ==
  IF parameters = <<>> THEN params
  ELSE LET param == Head(parameters)
           next  == IF param.in = <<"q","u","e","r","y">> /\ ~IsUndefined(Get(args, param.name))
                    THEN (param.name :> Get(args, param.name)) @@ params
                    ELSE params
       IN QueryParameters(Tail(parameters), args, next)

\* buildQueryParameters treating a cookie parameter like a query parameter.
buildQueryParameters_WithCookies(tool, args) ==
  QueryParameters([i \in DOMAIN tool.parameters |->
                     IF tool.parameters[i].in = <<"c","o","o","k","i","e">>
                     THEN [tool.parameters[i] EXCEPT !.in = <<"q","u","e","r","y">>]
                     ELSE tool.parameters[i]],
                  args, EmptyMap)

buildQueryParameters(tool, args) == QueryParameters(tool.parameters, args, EmptyMap)

\* buildRequestBody looking for requestBody before body.
buildRequestBody_RequestBodyFirst(tool, args) ==
  IF ~Truthy(tool.requestBody) THEN Null
  ELSE IF ~IsUndefined(Get(args, <<"r","e","q","u","e","s","t","B","o","d","y">>)) THEN Get(args, <<"r","e","q","u","e","s","t","B","o","d","y">>)
  ELSE IF ~IsUndefined(Get(args, <<"b","o","d","y">>)) THEN Get(args, <<"b","o","d","y">>)
  ELSE LET paramNames == {tool.parameters[i].name : i \in DOMAIN tool.parameters}
           bodyArgs   == SelectSeq(args.obj, LAMBDA e : e[1] \notin paramNames)
       IN IF Len(bodyArgs) > 0 THEN [obj |-> bodyArgs] ELSE Null

buildRequestBody(tool, args) ==
  IF ~Truthy(tool.requestBody) THEN Null
  ELSE IF ~IsUndefined(Get(args, <<"b","o","d","y">>)) THEN Get(args, <<"b","o","d","y">>)
  ELSE IF ~IsUndefined(Get(args, <<"r","e","q","u","e","s","t","B","o","d","y">>)) THEN Get(args, <<"r","e","q","u","e","s","t","B","o","d","y">>)
  ELSE LET paramNames == {tool.parameters[i].name : i \in DOMAIN tool.parameters}
           bodyArgs   == SelectSeq(args.obj, LAMBDA e : e[1] \notin paramNames)
       IN IF Len(bodyArgs) > 0 THEN [obj |-> bodyArgs] ELSE Null

UserAgent == <<"s","p","e","c","b","r","i","d","g","e","/","1",".","0",".","2">>

BaseHeaders ==
  (<<"C","o","n","t","e","n","t","-","T","y","p","e">> :> <<"a","p","p","l","i","c","a","t","i","o","n","/","j","s","o","n">>) @@ (<<"U","s","e","r","-","A","g","e","n","t">> :> UserAgent)

TimeoutMs == 30000

\* buildRequestConfig with the authentication header applied after the header
\* parameters.
buildRequestConfig_AuthenticationLast(context, args) ==
  LET tool    == context.tool
      headers == applyAuthentication(addHeaderParameters(tool.parameters, args, BaseHeaders),
                                     context.authConfig)
      params  == buildQueryParameters(tool, args)
      data    == buildRequestBody(tool, args)
  IN [method  |-> toLowerCase(tool.method),
      url     |-> buildUrl(tool, args),
      headers |-> headers,
      timeout |-> TimeoutMs,
      params  |-> IF DOMAIN params # {} THEN [map |-> params] ELSE Undefined,
      data    |-> IF data # Null THEN data ELSE Undefined]

\* context is [apiName, tool, authConfig]; params and data are Undefined when the
\* code does not set them.
buildRequestConfig(context, args) ==
  LET tool    == context.tool
      headers == addHeaderParameters(tool.parameters, args,
                                     applyAuthentication(BaseHeaders, context.authConfig))
      params  == buildQueryParameters(tool, args)
      data    == buildRequestBody(tool, args)
  IN [method  |-> toLowerCase(tool.method),
      url     |-> buildUrl(tool, args),
      headers |-> headers,
      timeout |-> TimeoutMs,
      params  |-> IF DOMAIN params # {} THEN [map |-> params] ELSE Undefined,
      data    |-> IF data # Null THEN data ELSE Undefined]

\* What buildRequestConfig throws, if it throws: buildUrl is its only step that can.
URIError == [isAxiosError |-> FALSE, message |-> <<"U","R","I"," ","m","a","l","f","o","r","m","e","d">>, response |-> Undefined]

buildRequestConfigThrows(context, args) == buildUrlThrows(context.tool, args)

\* formatResponse without the test for a null or absent payload.
formatResponse_NoEmptyTest(response) ==
  LET headers == join([i \in DOMAIN response.headers |->
                         response.headers[i][1] \o <<":"," ">> \o response.headers[i][2]], <<"\n">>)
      body    == IF IsString(response.data) THEN response.data.str
                 ELSE String(OrElse(JSONstringify(response.data), Str(<<"u","n","d","e","f","i","n","e","d">>)))
  IN <<"S","t","a","t","u","s",":"," ">> \o response.status \o <<" ">> \o response.statusText
     \o <<"\n","\n","H","e","a","d","e","r","s",":","\n">> \o headers \o <<"\n","\n","B","o","d","y",":","\n">> \o body

\* response is [status |-> decimal digits, statusText, headers |-> pairs, data].
formatResponse(response) ==
  LET headers == join([i \in DOMAIN response.headers |->
                         response.headers[i][1] \o <<":"," ">> \o response.headers[i][2]], <<"\n">>)
      body    == IF IsString(response.data) THEN response.data.str
                 ELSE IF IsNull(response.data) \/ IsUndefined(response.data)
                 THEN <<"(","e","m","p","t","y"," ","r","e","s","p","o","n","s","e",")">>
                 ELSE String(JSONstringify(response.data))
  IN <<"S","t","a","t","u","s",":"," ">> \o response.status \o <<" ">> \o response.statusText
     \o <<"\n","\n","H","e","a","d","e","r","s",":","\n">> \o headers \o <<"\n","\n","B","o","d","y",":","\n">> \o body

\* The catch block without JSON.stringify: the body is converted with String.
ErrorText_NotStringified(error) ==
  IF error.isAxiosError
  THEN LET status  == IF IsUndefined(error.response) THEN Str(<<"U","n","k","n","o","w","n">>)
                      ELSE OrElse(error.response.status, Str(<<"U","n","k","n","o","w","n">>))
           message == IF IsUndefined(error.response) THEN Str(error.message)
                      ELSE OrElse(error.response.data, Str(error.message))
       IN <<"H","T","T","P"," ","E","r","r","o","r"," ">> \o String(status) \o <<":"," ">> \o String(message)
  ELSE <<"R","e","q","u","e","s","t"," ","f","a","i","l","e","d",":"," ">> \o error.message

\* The catch block as it would be if the HTTP Error form needed a response.
ErrorText_ResponseRequired(error) ==
  IF error.isAxiosError /\ ~IsUndefined(error.response)
  THEN LET status  == OrElse(error.response.status, Str(<<"U","n","k","n","o","w","n">>))
           message == OrElse(error.response.data, Str(error.message))
       IN <<"H","T","T","P"," ","E","r","r","o","r"," ">> \o String(status) \o <<":"," ">> \o String(JSONstringify(message))
  ELSE <<"R","e","q","u","e","s","t"," ","f","a","i","l","e","d",":"," ">> \o error.message

\* The catch block of executeRequest.  error is [isAxiosError, response, message],
\* response being Undefined or [status |-> JavaScript value, data].
ErrorText(error) ==
  IF error.isAxiosError
  THEN LET status  == IF IsUndefined(error.response) THEN Str(<<"U","n","k","n","o","w","n">>)
                      ELSE OrElse(error.response.status, Str(<<"U","n","k","n","o","w","n">>))
           message == IF IsUndefined(error.response) THEN Str(error.message)
                      ELSE OrElse(error.response.data, Str(error.message))
       IN <<"H","T","T","P"," ","E","r","r","o","r"," ">> \o String(status) \o <<":"," ">> \o String(JSONstringify(message))
  ELSE <<"R","e","q","u","e","s","t"," ","f","a","i","l","e","d",":"," ">> \o error.message

----------------------------------------------------------------------------
(* src/server.ts: the validation schema of a tool                          *)
(*                                                                         *)
(* A schema fragment is a JavaScript value; an object is                   *)
(* [schema |-> type] or [schema |-> type, items |-> fragment], type being  *)
(* the text of its type field, <<>> when it has none.  A zod rule is       *)
(* [zod |-> kind], an array rule with its element rule.                    *)

ZodAny == [zod |-> "any"]

\* openAPISchemaToZod
RECURSIVE openAPISchemaToZod(_)
openAPISchemaToZod(schema) ==
  IF ~Truthy(schema) \/ "schema" \notin DOMAIN schema THEN ZodAny
  ELSE LET items == IF "items" \in DOMAIN schema THEN schema.items ELSE Undefined
       IN CASE schema.schema = <<"s","t","r","i","n","g">>  -> [zod |-> "string"]
            [] schema.schema = <<"n","u","m","b","e","r">>  -> [zod |-> "number"]
            [] schema.schema = <<"i","n","t","e","g","e","r">> -> [zod |-> "int"]
            [] schema.schema = <<"b","o","o","l","e","a","n">> -> [zod |-> "boolean"]
            [] schema.schema = <<"a","r","r","a","y">>   ->
                 [zod |-> "array",
                  element |-> openAPISchemaToZod(OrElse(items, [schema |-> <<>>]))]
            [] schema.schema = <<"o","b","j","e","c","t">>  -> [zod |-> "record"]
            [] OTHER -> ZodAny

\* One pass of the loop of buildZodSchema: schemaFields[param.name] = fieldSchema.
ZodField(param) ==
  [rule        |-> openAPISchemaToZod(param.schema),
   description |-> IF Truthy(param.description) THEN param.description ELSE Undefined,
   optional    |-> ~Truthy(param.required)]

RECURSIVE ZodFields(_, _)
ZodFields(parameters, schemaFields) ==
  IF parameters = <<>> THEN schemaFields
  ELSE ZodFields(Tail(parameters),
                 (Head(parameters).name :> ZodField(Head(parameters))) @@ schemaFields)

\* buildZodSchema: the fields of the z.object it returns, by name.
buildZodSchema(tool) ==
  LET schemaFields == ZodFields(tool.parameters, <<>>)
  IN IF Truthy(tool.requestBody)
     THEN (<<"b","o","d","y">> :> [rule |-> ZodAny, description |-> Str(<<"R","e","q","u","e","s","t"," ","b","o","d","y"," ","d","a","t","a">>), optional |-> TRUE])
            @@ schemaFields
     ELSE schemaFields

----------------------------------------------------------------------------
(* State *)

VARIABLES
  probe,          \* one application of a function on its own: [fn, in, out]
  pc,             \* the process: "launched", "exited", and of OpenAPIMCPServer
                  \* "created", "loading" or "serving"
  dir,            \* the specs directory as readdir lists it: << <<file, content>> >>
  envFile,        \* the .env file of the specs directory as loadAuthConfig finds it: [exists, entries]
  processEnv,     \* process.env, in enumeration order: << <<key, value>> >>
  launchEnv,      \* process.env as the process was started with it
  existingFiles,  \* the file paths loadExistingSpecs has still to handle
  authConfig,     \* this.authConfig: namespace -> descriptor
  parsedSpecs,    \* this.parsedSpecs: file path -> ParsedSpec
  registered,     \* the addTool calls made so far, in order: [name, description, spec, tool]
  calls,          \* tool invocations: [tool, args, context, request, phase, outcome, result]
  host,           \* the calls the attached host makes in its session; 0 without a host
  release,        \* the server that runs: "1.0.0" or, with the built-in tools, "1.0.2"
  builtInTools,   \* the names registerBuiltInTools has handed to addTool, in order
  specCalls,      \* the calls of built-in tools that have ended: [tool, filename, result, touched]
  config,         \* the ServerConfig: [transportType, port]
  transport       \* the transport fastMCP.start was called with, "none" before

serverVars == <<pc, dir, envFile, processEnv, launchEnv, existingFiles, authConfig, parsedSpecs,
                registered, calls, host, release, builtInTools, specCalls, config, transport>>

vars == <<probe, pc, dir, envFile, processEnv, launchEnv, existingFiles, authConfig,
          parsedSpecs, registered, calls, host, release, builtInTools, specCalls, config, transport>>

Pending == [pending |-> TRUE]

----------------------------------------------------------------------------
(* Inputs of the functions applied on their own *)

MaxPathLen == 4

PathChars == {"/", "a", "1", "-", "{"}

\* Every string over the alphabet of at most n characters.
StringsUpTo(alphabet, n) == UNION {[1..k -> alphabet] : k \in 0..n}

\* Path templates start with "/", as the keys of a document's paths object do.
PathTemplates ==
  {<<"/">> \o t : t \in StringsUpTo(PathChars, MaxPathLen)}
    \cup {<<"/","a","/","{","i","d","}","/","b">>, <<"/","p","e","t","/","{","p","e","t","I","d","}">>, <<"/","u","s","e","r","/","r","e","p","o","s">>}

OperationIds == {Undefined, Str(<<>>), Str(<<"g","e","t","P","e","t","B","y","I","d">>), Str(<<"b","_","c">>), Str(<<"g","e","t"," ","a","/","{","b","}">>)}

\* An operation object with the fields the compiler reads.
Operation(operationId, parameters, requestBody) ==
  [operationId |-> operationId, summary |-> Undefined, description |-> Undefined,
   parameters |-> parameters, requestBody |-> requestBody]

Namespaces == {<<"p","e","t","s","t","o","r","e">>, <<"a">>}

GenerateToolNameInputs ==
  {[apiName |-> ns, operation |-> Operation(id, Undefined, Undefined),
    pathTemplate |-> path, method |-> methods[k]] :
     ns \in Namespaces, id \in OperationIds \ {Undefined, Str(<<>>)},
     path \in {<<"/","a","/","{","i","d","}","/","b">>, <<"/">>, <<"/","-">>}, k \in DOMAIN methods}
  \cup
  {[apiName |-> ns, operation |-> Operation(id, Undefined, Undefined),
    pathTemplate |-> path, method |-> methods[k]] :
     ns \in {<<"p","e","t","s","t","o","r","e">>}, id \in {Undefined, Str(<<>>)},
     path \in PathTemplates, k \in {1, Len(methods)}}

ApplyGenerateToolName ==
  /\ probe.fn = "generateToolName"
  /\ probe.out = Pending
  /\ UNCHANGED serverVars
  /\ probe' = [probe EXCEPT !.out =
                 Str(generateToolName(probe.in.apiName, probe.in.operation,
                                      probe.in.pathTemplate, probe.in.method))]

FileNames ==
  {<<"p","e","t","s","t","o","r","e",".","j","s","o","n">>, <<"m","y","-","c","u","s","t","o","m","_","A","p","i",".","y","a","m","l">>, <<"g","i","t","h","u","b","-","a","p","i",".","y","a","m","l">>, <<"m","y","_","c","u","s","t","o","m","_","a","p","i",".","y","m","l">>,
   <<"A","_","b",".","v","2",".","J","S","O","N">>, <<"-","_",".","y","m","l">>, <<"n","o","e","x","t">>, <<".","j","s","o","n">>, <<"a","r","c","h","i","v","e",".","t","a","r",".","g","z">>, <<"a","_","b",".","j","s","o","n">>, <<"a",".","y","m","l">>}

SpecsPaths == {<<"/","h","o","m","e","/","u","/","m","c","p","-","a","p","i","s">>, <<"/","s","r","v","/","m","y","_","s","p","e","c","s",".","d">>, <<".">>}

GetApiNameInputs == {pathJoin(d, f) : d \in SpecsPaths, f \in FileNames} \cup FileNames

ApplyGetApiNameFromFile ==
  /\ probe.fn = "getApiNameFromFile"
  /\ probe.out = Pending
  /\ UNCHANGED serverVars
  /\ probe' = [probe EXCEPT !.out = Str(getApiNameFromFile(probe.in))]

\* A declared parameter as extractParameters stores it.
ToolParameter(name, in, required) ==
  [name |-> name, in |-> in, required |-> Bool(required),
   schema |-> [schema |-> <<"s","t","r","i","n","g">>], description |-> Undefined]

\* A GeneratedTool with the fields the request builder reads.
Tool(name, method, path, parameters, requestBody, baseUrl) ==
  [name |-> name, description |-> method \o <<" ">> \o path, operationId |-> Undefined,
   method |-> method, path |-> path, parameters |-> parameters,
   requestBody |-> requestBody, baseUrl |-> baseUrl]

MaxParams == 2

UrlParameters ==
  {ToolParameter(<<"i","d">>, <<"p","a","t","h">>, TRUE), ToolParameter(<<"n">>, <<"p","a","t","h">>, TRUE),
   ToolParameter(<<"i","d">>, <<"q","u","e","r","y">>, FALSE), ToolParameter(<<"n">>, <<"h","e","a","d","e","r">>, FALSE)}

\* Every sequence over S of at most n elements.
SeqsUpTo(S, n) == UNION {[1..k -> S] : k \in 0..n}

UrlBases == {<<"h","t","t","p","s",":","/","/","h",".","i","o","/","v","3">>, <<"h","t","t","p","s",":","/","/","h",".","i","o","/">>, <<"h","t","t","p","s",":","/","/","h",".","i","o","/","{","i","d","}">>}

UrlPaths == {<<"/","p","e","t","/","{","i","d","}">>, <<"/","p","e","t","/","{","i","d","}","/","o","w","n","e","r","/","{","n","}">>, <<"/","p","e","t","/","{","i","d","}","/","c","o","p","y","/","{","i","d","}">>, <<"/","p","e","t","s">>}

UrlValues == {Num(<<"4","2">>), Str(<<"a"," ","b","/","c">>), Str(<<"{","n","}">>), Str(<<"$","&">>), Null}

UrlArgs ==
  {[obj |-> <<>>]}
    \cup {[obj |-> << <<<<"i","d">>, v>> >>] : v \in UrlValues}
    \cup {[obj |-> << <<<<"i","d">>, v>>, <<<<"n">>, w>> >>] : v \in UrlValues, w \in {Num(<<"7">>), Str(<<"{","i","d","}">>)}}
    \cup {[obj |-> << <<<<"n">>, w>> >>] : w \in {Num(<<"7">>)}}

BuildUrlInputs ==
  {[tool |-> Tool(<<"t">>, <<"G","E","T">>, path, ps, Undefined, base), args |-> args] :
     path \in UrlPaths, ps \in SeqsUpTo(UrlParameters, MaxParams),
     base \in UrlBases, args \in UrlArgs}

ApplyBuildUrl ==
  /\ probe.fn = "buildUrl"
  /\ probe.out = Pending
  /\ UNCHANGED serverVars
  /\ probe' = [probe EXCEPT !.out = Str(buildUrl(probe.in.tool, probe.in.args))]

\* Descriptors of every shape, those the resolver never builds included.
Descriptors ==
  [type       : {Undefined, Str(<<"b","e","a","r","e","r">>), Str(<<"a","p","i","K","e","y">>), Str(<<"b","a","s","i","c">>), Str(<<"o","a","u","t","h","2">>)},
   token      : {Undefined, Str(<<>>), Str(<<"s","3","c","r","3","t">>)},
   headerName : {Undefined, Str(<<"X","-","A","P","I","-","K","e","y">>), Str(<<"X","-","A","u","t","h">>)},
   username   : {Undefined, Str(<<"u">>), Str(<<"u","s","e","r">>)},
   password   : {Undefined, Str(<<"p">>), Str(<<"p","a",":","s","s">>)}]

HeaderSets ==
  {BaseHeaders, SetHeader(BaseHeaders, <<"A","u","t","h","o","r","i","z","a","t","i","o","n">>, <<"B","e","a","r","e","r"," ","o","l","d">>),
   SetHeader(BaseHeaders, <<"X","-","A","P","I","-","K","e","y">>, <<"o","l","d">>)}

ApplyAuthenticationInputs ==
  {[headers |-> h, authConfig |-> Undefined] : h \in HeaderSets}
    \cup {[headers |-> h, authConfig |-> [desc |-> d]] : h \in HeaderSets, d \in Descriptors}

ApplyApplyAuthentication ==
  /\ probe.fn = "applyAuthentication"
  /\ probe.out = Pending
  /\ UNCHANGED serverVars
  /\ probe' = [probe EXCEPT !.out =
                 [headers |-> applyAuthentication(probe.in.headers, probe.in.authConfig)]]

\* Payloads with the text JSON.stringify(payload, null, 2) gives for each.
JsonSamples ==
  << <<[obj |-> << <<<<"m","e","s","s","a","g","e">>, Str(<<"n","o","t"," ","f","o","u","n","d">>)>> >>],
       <<"{","\n"," "," ","\"","m","e","s","s","a","g","e","\"",":"," ","\"","n","o","t"," ","f","o","u","n","d","\"","\n","}">>>>,
     <<[obj |-> << <<<<"i","d">>, Num(<<"4","2">>)>>, <<<<"t","a","g","s">>, [arr |-> <<Str(<<"a","\"","b">>), Null>>]>>,
                   <<<<"o","w","n","e","r">>, [obj |-> << <<<<"o","k">>, Bool(TRUE)>> >>]>> >>],
       <<"{","\n"," "," ","\"","i","d","\"",":"," ","4","2",",","\n"," "," ","\"","t","a","g","s","\"",":"," ","[","\n"," "," "," "," ","\"","a","\\","\"","b","\"",",","\n"," "," "," "," ","n","u","l","l","\n"," "," ","]",",","\n"," "," ","\"","o","w","n","e","r","\"",":"," ","{","\n"," "," "," "," ","\"","o","k","\"",":"," ","t","r","u","e","\n"," "," ","}","\n","}">>>>,
     <<[obj |-> <<>>], <<"{","}">>>>,
     <<[arr |-> <<>>], <<"[","]">>>>,
     <<[arr |-> <<Num(<<"1">>), [arr |-> <<Num(<<"2">>)>>]>>], <<"[","\n"," "," ","1",",","\n"," "," ","[","\n"," "," "," "," ","2","\n"," "," ","]","\n","]">>>>,
     <<Num(<<"4","2">>), <<"4","2">>>>,
     <<Bool(FALSE), <<"f","a","l","s","e">>>> >>

ResponsePayloads ==
  {Null, Undefined, Str(<<>>), Str(<<"h","e","l","l","o">>), Str(<<"{","\"","r","a","w","\"",":","1","}">>)}
    \cup {JsonSamples[i][1] : i \in DOMAIN JsonSamples}

ResponseHeaders ==
  {<<>>,
   << <<<<"c","o","n","t","e","n","t","-","t","y","p","e">>, <<"a","p","p","l","i","c","a","t","i","o","n","/","j","s","o","n">>>> >>,
   << <<<<"c","o","n","t","e","n","t","-","t","y","p","e">>, <<"t","e","x","t","/","p","l","a","i","n">>>>, <<<<"x","-","r","e","q","u","e","s","t","-","i","d">>, <<"7">>>> >>,
   << <<<<"x","-","r","e","q","u","e","s","t","-","i","d">>, <<"7">>>>, <<<<"c","o","n","t","e","n","t","-","t","y","p","e">>, <<"t","e","x","t","/","p","l","a","i","n">>>> >>}

ResponseStatuses == {<<<<"2","0","0">>, <<"O","K">>>>, <<<<"2","0","1">>, <<"C","r","e","a","t","e","d">>>>, <<<<"2","0","4">>, <<"N","o"," ","C","o","n","t","e","n","t">>>>}

FormatResponseInputs ==
  {[status |-> st[1], statusText |-> st[2], headers |-> h, data |-> d] :
     st \in ResponseStatuses, h \in ResponseHeaders, d \in ResponsePayloads}

ApplyFormatResponse ==
  /\ probe.fn = "formatResponse"
  /\ probe.out = Pending
  /\ UNCHANGED serverVars
  /\ probe' = [probe EXCEPT !.out = Str(formatResponse(probe.in))]

----------------------------------------------------------------------------
(* Documents, directories and environments the server is run on *)

ParamObject(name, in, required) ==
  [param |-> [name |-> Str(name), in |-> Str(in), required |-> required,
              schema |-> [schema |-> <<"s","t","r","i","n","g">>], description |-> Undefined]]

NoOps == [k \in Range(methods) |-> Undefined]

PathItem(ops, parameters) == [item |-> [ops |-> ops @@ NoOps, parameters |-> parameters]]

\* examples/petstore.json
Petstore ==
  [servers |-> <<<<"h","t","t","p","s",":","/","/","p","e","t","s","t","o","r","e","3",".","s","w","a","g","g","e","r",".","i","o","/","a","p","i","/","v","3">>>>,
   paths |-> [entries |->
     << <<<<"/","p","e","t","/","{","p","e","t","I","d","}">>,
          PathItem(<<"g","e","t">> :> [op |-> [Operation(Str(<<"g","e","t","P","e","t","B","y","I","d">>),
                                               [list |-> <<ParamObject(<<"p","e","t","I","d">>, <<"p","a","t","h">>, Bool(TRUE))>>],
                                               Undefined)
                                       EXCEPT !.summary = Str(<<"F","i","n","d"," ","p","e","t"," ","b","y"," ","I","D">>)]],
                   Undefined)>>,
        <<<<"/","p","e","t">>,
          PathItem(<<"p","o","s","t">> :> [op |-> Operation(Str(<<"a","d","d","P","e","t">>), Undefined, [body |-> TRUE])],
                   Undefined)>>,
        <<<<"/","s","t","o","r","e","/","i","n","v","e","n","t","o","r","y">>,
          PathItem(<<"g","e","t">> :> [op |-> Operation(Str(<<"g","e","t","I","n","v","e","n","t","o","r","y">>), Undefined, Undefined)],
                   Undefined)>> >>]]

\* A document without servers: operations without operationId whose paths differ only
\* in a stripped character, operationIds with an underscore, a header parameter
\* declared at path level, and a path entry that is not an object.
Keyed ==
  [servers |-> <<>>,
   paths |-> [entries |->
     << <<<<"/","a","-","b">>, PathItem(<<"g","e","t">> :> [op |-> Operation(Undefined, Undefined, Undefined)],
                           Undefined)>>,
        <<<<"/","a","b">>, PathItem(<<"g","e","t">> :> [op |-> Operation(Undefined, Undefined, Undefined)],
                          Undefined)>>,
        <<<<"/","x","-","s","k","i","p","p","e","d">>, Null>>,
        <<<<"/","k","e","y","s","/","{","i","d","}">>,
          PathItem((<<"g","e","t">> :> [op |-> Operation(Str(<<"b","_","c">>), Undefined, Undefined)])
                     @@ (<<"d","e","l","e","t","e">> :> [op |-> Operation(Str(<<"c">>),
                                        [list |-> <<ParamObject(<<"i","d">>, <<"p","a","t","h">>, Undefined)>>],
                                        Undefined)]),
                   [list |-> <<ParamObject(<<"X","-","A","P","I","-","K","e","y">>, <<"h","e","a","d","e","r">>, Undefined)>>])>> >>]]

\* What SwaggerParser.validate may make of each file of the directory.
FileContents(file) ==
  CASE file \in {<<"p","e","t","s","t","o","r","e",".","j","s","o","n">>, <<"P","e","t","-","S","t","o","r","e",".","y","a","m","l">>} -> {[doc |-> Petstore], [invalid |-> TRUE]}
    [] file \in {<<"a","_","b",".","y","m","l">>, <<"a",".","j","s","o","n">>} -> {[doc |-> Keyed]}
    [] OTHER -> {[invalid |-> TRUE]}

DirFiles == {<<"p","e","t","s","t","o","r","e",".","j","s","o","n">>, <<"P","e","t","-","S","t","o","r","e",".","y","a","m","l">>, <<"a","_","b",".","y","m","l">>, <<"a",".","j","s","o","n">>, <<"p","a","c","k","a","g","e",".","j","s","o","n">>, <<"o","p","e","n","a","p","i",".","y","a","m","l">>}

MaxFiles == 2

\* The directory listings of at most MaxFiles files, in any order.
Listings ==
  {l \in SeqsUpTo({<<f, c>> : f \in DirFiles, c \in {[doc |-> Petstore], [doc |-> Keyed], [invalid |-> TRUE]}},
                  MaxFiles) :
     /\ \A i \in DOMAIN l : l[i][2] \in FileContents(l[i][1])
     /\ \A i, j \in DOMAIN l : i # j => l[i][1] # l[j][1]}

ServingListings ==
  {<< <<<<"p","e","t","s","t","o","r","e",".","j","s","o","n">>, [doc |-> Petstore]>>, <<<<"a","_","b",".","y","m","l">>, [doc |-> Keyed]>> >>}

NoEnvFile == [exists |-> FALSE, entries |-> <<>>]

ProcessEnvs ==
  {<<>>,
   << <<<<"P","A","T","H">>, <<"/","u","s","r","/","b","i","n">>>>, <<<<"P","E","T","S","T","O","R","E","_","A","P","I","_","K","E","Y">>, <<"k","1">>>> >>,
   << <<<<"P","E","T","S","T","O","R","E","_","U","S","E","R","N","A","M","E">>, <<"u">>>>, <<<<"A","B","_","A","P","I","_","K","E","Y">>, <<"k","2">>>>, <<<<"A","b","_","A","P","I","_","K","E","Y">>, <<>>>> >>,
   << <<<<"P","E","T","_","S","T","O","R","E","_","A","P","I","_","K","E","Y">>, <<"k","1">>>>, <<<<"A","B","_","P","A","S","S","W","O","R","D">>, <<"p">>>>, <<<<"A","B","_","A","P","I","_","K","E","Y">>, <<"k","2">>>> >>,
   << <<<<"p","e","t","s","t","o","r","e","_","A","P","I","_","K","E","Y">>, <<"k","3">>>>, <<<<"P","E","T","S","T","O","R","E","_","T","O","K","E","N">>, <<"t","1">>>>, <<<<"A","B","_","U","S","E","R","N","A","M","E">>, <<"u">>>>,
      <<<<"A","B","_","P","A","S","S","W","O","R","D">>, <<"p">>>> >>}

EnvFiles ==
  {NoEnvFile,
   [exists |-> TRUE, entries |-> << <<<<"P","E","T","S","T","O","R","E","_","A","P","I","_","K","E","Y">>, <<"k","9">>>>, <<<<"A","B","_","B","E","A","R","E","R","_","T","O","K","E","N">>, <<"t","2">>>> >>]}

specsPath == <<"/","s","p","e","c","s">>

MaxCalls == 1

\* The calls of a host that does not wait for one answer before it asks again.
MaxInFlight == 2

\* examples/petstore.json cut down to getPetById and getInventory.
PetstoreReads ==
  [Petstore EXCEPT !.paths.entries = <<Petstore.paths.entries[1], Petstore.paths.entries[3]>>]

\* A document whose server URL is relative to the place the document is served
\* from, as the OpenAPI format allows.
RelativeServer ==
  [servers |-> <<<<"/","a","p","i","/","v","3">>>>,
   paths |-> [entries |->
     << <<<<"/","p","e","t","s">>, PathItem(<<"g","e","t">> :> [op |-> Operation(Str(<<"l","i","s","t","P","e","t","s">>), Undefined, Undefined)],
                             Undefined)>> >>]]

\* The directories that host works on, one document each.
ConcurrentListings ==
  {<< <<<<"p","e","t","s","t","o","r","e",".","j","s","o","n">>, [doc |-> PetstoreReads]>> >>,
   << <<<<"a","p","i",".","y","a","m","l">>, [doc |-> RelativeServer]>> >>}

\* The arguments the host passes for a tool: its schema has accepted them, so a
\* required parameter is present.
\* A malformed argument is a string ending in a lone surrogate, which JSON text can
\* carry as an escape and a string schema accepts.
ArgValue(param, malformed) ==
  IF param.in = <<"p","a","t","h">>
  THEN (IF malformed THEN Str(<<"4", LoneSurrogate>>) ELSE Num(<<"4","2">>))
  ELSE Str(<<"f","r","o","m","-","a","r","g">>)

ArgsOf(tool, optional, malformed) ==
  [obj |->
     LET ps == SelectSeq(tool.parameters, LAMBDA q : optional \/ Truthy(q.required))
     IN [i \in DOMAIN ps |-> <<ps[i].name, ArgValue(ps[i], malformed)>>]
        \o (IF optional /\ Truthy(tool.requestBody)
            THEN << <<<<"b","o","d","y">>, [obj |-> << <<<<"n","a","m","e">>, Str(<<"d","o","g","g","i","e">>)>> >>]>> >>
            ELSE <<>>)]

\* How the HTTP call of an invocation ends.
Outcomes ==
  {[response |-> [status |-> <<"2","0","0">>, statusText |-> <<"O","K">>,
                  headers |-> << <<<<"c","o","n","t","e","n","t","-","t","y","p","e">>, <<"a","p","p","l","i","c","a","t","i","o","n","/","j","s","o","n">>>> >>,
                  data |-> [obj |-> << <<<<"i","d">>, Num(<<"4","2">>)>> >>]]],
   [error |-> [isAxiosError |-> TRUE, message |-> <<"R","e","q","u","e","s","t"," ","f","a","i","l","e","d"," ","w","i","t","h"," ","s","t","a","t","u","s"," ","c","o","d","e"," ","4","0","4">>,
               response |-> [status |-> Num(<<"4","0","4">>),
                             data |-> [obj |-> << <<<<"m","e","s","s","a","g","e">>, Str(<<"n","o","t"," ","f","o","u","n","d">>)>> >>]]]],
   [error |-> [isAxiosError |-> TRUE, message |-> <<"R","e","q","u","e","s","t"," ","f","a","i","l","e","d"," ","w","i","t","h"," ","s","t","a","t","u","s"," ","c","o","d","e"," ","5","0","0">>,
               response |-> [status |-> Num(<<"5","0","0">>), data |-> Str(<<>>)]]],
   [error |-> [isAxiosError |-> TRUE, message |-> <<"t","i","m","e","o","u","t"," ","o","f"," ","3","0","0","0","0","m","s"," ","e","x","c","e","e","d","e","d">>,
               response |-> Undefined]]}

----------------------------------------------------------------------------
(* Further functions applied on their own, and the initial states *)

\* The seven methods, as the names a document uses for them.
HttpMethods == {<<"g","e","t">>, <<"p","o","s","t">>, <<"p","u","t">>, <<"p","a","t","c","h">>, <<"d","e","l","e","t","e">>, <<"h","e","a","d">>, <<"o","p","t","i","o","n","s">>}

MaxOps == 2

GoodOperation == [op |-> Operation(Undefined, [list |-> <<ParamObject(<<"q">>, <<"q","u","e","r","y">>, Undefined)>>], Undefined)]

\* Operations the compiler throws on: a parameter list holding a primitive, and
\* parameters that cannot be spread.
BadOperations ==
  {[op |-> Operation(Undefined, [list |-> <<Str(<<"o","o","p","s">>)>>], Undefined)],
   [op |-> Operation(Str(<<"b","r","o","k","e","n">>), Num(<<"7">>), Undefined)]}

\* Path items with at most MaxOps operations, at most one of which does not compile.
CompilerPathItems ==
  {Null, Str(<<"n","o","t"," ","a","n"," ","o","b","j","e","c","t">>)}
    \cup {[item |-> [ops |-> [m \in HttpMethods |-> IF m \in D THEN GoodOperation ELSE Undefined],
                     parameters |-> pl]] :
            D \in {X \in SUBSET HttpMethods : Cardinality(X) <= MaxOps},
            pl \in {Undefined, [list |-> <<ParamObject(<<"i","d">>, <<"p","a","t","h">>, Undefined)>>],
                    [list |-> <<ParamObject(<<"q">>, <<"q","u","e","r","y">>, Bool(TRUE)),
                                [ref |-> <<"#","/","c","o","m","p","o","n","e","n","t","s","/","p","a","r","a","m","e","t","e","r","s","/","l","i","m","i","t">>],
                                [param |-> [ParamObject(<<"n">>, <<"h","e","a","d","e","r">>, Undefined).param EXCEPT !.schema = Undefined]]>>]}}
    \cup {[item |-> [ops |-> [m \in HttpMethods |->
                                IF m = b THEN bad ELSE IF m \in D THEN GoodOperation ELSE Undefined],
                     parameters |-> Undefined]] :
            D \in {X \in SUBSET HttpMethods : Cardinality(X) <= MaxOps},
            b \in HttpMethods, bad \in BadOperations}
    \cup {[item |-> [ops |-> [m \in HttpMethods |-> IF m \in D THEN GoodOperation ELSE Undefined],
                     parameters |-> Bool(TRUE)]] :
            D \in {X \in SUBSET HttpMethods : Cardinality(X) = 1}}

CompilerDocs ==
  {[servers |-> <<>>, paths |-> Undefined], [servers |-> <<>>, paths |-> [entries |-> <<>>]]}
    \cup {[servers |-> <<<<"h","t","t","p","s",":","/","/","h",".","i","o","/">>>>, paths |-> [entries |-> << <<<<"/","p">>, a>> >>]] :
            a \in CompilerPathItems}
    \cup {[servers |-> <<>>, paths |-> [entries |-> << <<t[1], a>>, <<t[2], b>> >>]] :
            t \in {<<<<"/","p">>, <<"/","q","/","{","i","d","}">>>>, <<<<"/","q","/","{","i","d","}">>, <<"/","p">>>>},
            a \in CompilerPathItems, b \in {Null} \cup
              {[item |-> [ops |-> [m \in HttpMethods |-> IF m \in D THEN GoodOperation ELSE Undefined],
                          parameters |-> Undefined]] :
                 D \in {X \in SUBSET HttpMethods : Cardinality(X) = 1}}}

ApplyGenerateToolsFromSpec ==
  /\ probe.fn = "generateToolsFromSpec"
  /\ probe.out = Pending
  /\ UNCHANGED serverVars
  /\ probe' = [probe EXCEPT !.out = [tools |-> generateToolsFromSpec(probe.in, <<"n","s">>)]]

MaxEnvEntries == 3

\* Environment entries: a key with its value, or with the empty value.
EnvEntries ==
  LET valued == {<<<<"P","E","T","_","A","P","I","_","K","E","Y">>, <<"k","1">>>>, <<<<"p","e","t","_","A","P","I","_","K","E","Y">>, <<"k","2">>>>, <<<<"P","E","T","_","T","O","K","E","N">>, <<"t","1">>>>,
                 <<<<"P","E","T","_","B","E","A","R","E","R","_","T","O","K","E","N">>, <<"t","2">>>>, <<<<"P","E","T","_","U","S","E","R","N","A","M","E">>, <<"u">>>>,
                 <<<<"P","E","T","_","P","A","S","S","W","O","R","D">>, <<"p">>>>, <<<<"G","I","T","_","H","U","B","_","A","P","I","_","K","E","Y">>, <<"k","3">>>>, <<<<"H","O","M","E">>, <<"/","r","o","o","t">>>>}
  IN valued \cup {<<<<"P","E","T","_","T","O","K","E","N">>, <<>>>>, <<<<"M","Y","B","E","A","R","E","R","_","T","O","K","E","N">>, <<"t","3">>>>}

LoadAuthConfigInputs ==
  {[env |-> e, file |-> NoEnvFile] :
     e \in {l \in SeqsUpTo(EnvEntries, MaxEnvEntries) :
              \A i, j \in DOMAIN l : i # j => l[i][1] # l[j][1]}}
    \cup {[env |-> e, file |-> f] : e \in ProcessEnvs, f \in EnvFiles}

ApplyLoadAuthConfig ==
  /\ probe.fn = "loadAuthConfig"
  /\ probe.out = Pending
  /\ UNCHANGED serverVars
  /\ probe' = [probe EXCEPT !.out = [map |-> loadAuthConfig(probe.in.env, probe.in.file)]]

\* Entries of a parameters list: a parameter of each location with required
\* declared true, declared false or not declared, a reference, and parameters
\* without a location, a name or a schema.
ParamRefs ==
  {ParamObject(<<"p">>, in, required) :
     in \in {<<"p","a","t","h">>, <<"q","u","e","r","y">>, <<"h","e","a","d","e","r">>, <<"c","o","o","k","i","e">>},
     required \in {Undefined, Bool(TRUE), Bool(FALSE)}}
    \cup {[ref |-> <<"#","/","c","o","m","p","o","n","e","n","t","s","/","p","a","r","a","m","e","t","e","r","s","/","l","i","m","i","t">>],
          [param |-> [ParamObject(<<"p">>, <<"q","u","e","r","y">>, Undefined).param EXCEPT !.in = Undefined]],
          [param |-> [ParamObject(<<"p">>, <<"q","u","e","r","y">>, Undefined).param EXCEPT !.name = Undefined]],
          [param |-> [ParamObject(<<"p">>, <<"q","u","e","r","y">>, Undefined).param EXCEPT !.schema = Undefined]]}

ExtractParametersInputs == SeqsUpTo(ParamRefs, MaxParams)

ApplyExtractParameters ==
  /\ probe.fn = "extractParameters"
  /\ probe.out = Pending
  /\ UNCHANGED serverVars
  /\ probe' = [probe EXCEPT !.out = [parameters |-> extractParameters(probe.in)]]

\* Schema fragments: one of each type the translation knows, arrays with and
\* without items, two levels deep and with items that are no object, a type
\* it does not know, an object without a type, and values that are no object.
SchemaFragments ==
  {[schema |-> type] : type \in {<<"s","t","r","i","n","g">>, <<"n","u","m","b","e","r">>, <<"i","n","t","e","g","e","r">>, <<"b","o","o","l","e","a","n">>, <<"o","b","j","e","c","t">>, <<"a","r","r","a","y">>, <<"f","i","l","e">>, <<>>}}
    \cup {[schema |-> <<"a","r","r","a","y">>, items |-> items] :
            items \in {[schema |-> <<"s","t","r","i","n","g">>], [schema |-> <<"i","n","t","e","g","e","r">>], [schema |-> <<"a","r","r","a","y">>],
                       [schema |-> <<"a","r","r","a","y">>, items |-> [schema |-> <<"b","o","o","l","e","a","n">>]],
                       Str(<<"s","t","r","i","n","g">>), Null}}
    \cup {Undefined, Null, Str(<<"s","t","r","i","n","g">>)}

\* Tools of one parameter of each schema, required or not, described or not,
\* with and without a request body, and tools of two parameters of one name or
\* with a parameter named body.
BuildZodSchemaInputs ==
  LET Param(name, required, schema, description) ==
        [ToolParameter(name, <<"q","u","e","r","y">>, required) EXCEPT !.schema = schema, !.description = description]
      T(parameters, requestBody) ==
        Tool(<<"n","s","_","o","p">>, <<"P","O","S","T">>, <<"/","p">>, parameters, requestBody, <<"h","t","t","p","s",":","/","/","h",".","i","o">>)
  IN {T(<<Param(<<"a">>, required, schema, description)>>, requestBody) :
        required \in BOOLEAN, schema \in SchemaFragments,
        description \in {Undefined, Str(<<"t","h","e"," ","a">>), Str(<<>>)},
        requestBody \in {Undefined, [body |-> TRUE]}}
       \cup {T(<<Param(<<"a">>, TRUE, [schema |-> <<"s","t","r","i","n","g">>], Undefined),
                 Param(name, required, [schema |-> <<"i","n","t","e","g","e","r">>], Undefined)>>, requestBody) :
               name \in {<<"a">>, <<"b">>, <<"b","o","d","y">>}, required \in BOOLEAN,
               requestBody \in {Undefined, [body |-> TRUE]}}
       \cup {T(<<>>, requestBody) : requestBody \in {Undefined, [body |-> TRUE]}}

ApplyBuildZodSchema ==
  /\ probe.fn = "buildZodSchema"
  /\ probe.out = Pending
  /\ UNCHANGED serverVars
  /\ probe' = [probe EXCEPT !.out = [fields |-> buildZodSchema(probe.in)]]

\* The entries of s at the places K, in their order.
Picked(s, K) ==
  LET F[i \in 0..Len(s)] ==
        IF i = 0 THEN <<>> ELSE IF i \in K THEN Append(F[i - 1], s[i]) ELSE F[i - 1]
  IN F[Len(s)]

\* Tools for building a request: a path, a query, a header and a cookie
\* parameter, the header parameter named like no other header, like the
\* authentication headers or like a base header; a tool that declares the
\* names id and c in two locations each; and a tool with a query parameter
\* named body.  Each with and without a request body.
RequestTools ==
  {Tool(<<"n","s","_","o","p">>, <<"P","O","S","T">>, <<"/","p","e","t","/","{","i","d","}">>,
        <<ToolParameter(<<"i","d">>, <<"p","a","t","h">>, TRUE), ToolParameter(<<"q">>, <<"q","u","e","r","y">>, FALSE),
          ToolParameter(h, <<"h","e","a","d","e","r">>, FALSE), ToolParameter(<<"c">>, <<"c","o","o","k","i","e">>, FALSE)>>,
        requestBody, <<"h","t","t","p","s",":","/","/","h",".","i","o">>) :
     h \in {<<"X","-","T","r","a","c","e">>, <<"A","u","t","h","o","r","i","z","a","t","i","o","n">>, <<"X","-","A","P","I","-","K","e","y">>, <<"C","o","n","t","e","n","t","-","T","y","p","e">>},
     requestBody \in {Undefined, [body |-> TRUE]}}
    \cup
  {Tool(<<"n","s","_","o","p">>, <<"P","O","S","T">>, <<"/","p","e","t","/","{","i","d","}">>,
        <<ToolParameter(<<"i","d">>, <<"p","a","t","h">>, TRUE), ToolParameter(<<"i","d">>, <<"q","u","e","r","y">>, FALSE),
          ToolParameter(<<"c">>, <<"c","o","o","k","i","e">>, FALSE), ToolParameter(<<"c">>, <<"h","e","a","d","e","r">>, FALSE)>>,
        requestBody, <<"h","t","t","p","s",":","/","/","h",".","i","o">>) :
     requestBody \in {Undefined, [body |-> TRUE]}}
    \cup
  {Tool(<<"n","s","_","o","p">>, <<"P","O","S","T">>, <<"/","p","e","t","/","{","i","d","}">>,
        <<ToolParameter(<<"i","d">>, <<"p","a","t","h">>, TRUE), ToolParameter(<<"b","o","d","y">>, <<"q","u","e","r","y">>, FALSE)>>,
        requestBody, <<"h","t","t","p","s",":","/","/","h",".","i","o">>) :
     requestBody \in {Undefined, [body |-> TRUE]}}

\* The arguments of a call: any of the declared names, body, requestBody and a
\* name no parameter has, each with a value of its own; and body given as null.
RequestArgs ==
  LET all == << <<<<"i","d">>, Num(<<"7">>)>>, <<<<"q">>, Str(<<"r","e","x">>)>>, <<<<"X","-","T","r","a","c","e">>, Str(<<"v","1">>)>>,
                <<<<"A","u","t","h","o","r","i","z","a","t","i","o","n">>, Str(<<"B","a","s","i","c"," ","m","i","n","e">>)>>, <<<<"X","-","A","P","I","-","K","e","y">>, Str(<<"k","-","m","i","n","e">>)>>,
                <<<<"C","o","n","t","e","n","t","-","T","y","p","e">>, Str(<<"t","e","x","t","/","p","l","a","i","n">>)>>, <<<<"c">>, Str(<<"s","3","s","s","1","0","n">>)>>,
                <<<<"b","o","d","y">>, [obj |-> << <<<<"n","a","m","e">>, Str(<<"d","o","g","g","i","e">>)>> >>]>>,
                <<<<"r","e","q","u","e","s","t","B","o","d","y">>, [obj |-> << <<<<"n","a","m","e">>, Str(<<"k","i","t","t","y">>)>> >>]>>,
                <<<<"t","a","g">>, Str(<<"n","e","w">>)>> >>
      headers == {{3}, {4}, {5}, {6}}
  IN {[obj |-> Picked(all, K \cup H)] : K \in SUBSET {1, 2, 7, 8, 9, 10}, H \in headers \cup {{}}}
       \cup {[obj |-> << <<<<"b","o","d","y">>, Null>> >> \o Picked(all, K)] : K \in SUBSET {9, 10}}

RequestAuthConfigs ==
  {Undefined,
   [desc |-> [NewDescriptor(<<"b","e","a","r","e","r">>) EXCEPT !.token = Str(<<"t","0","k","3","n">>)]],
   [desc |-> [NewDescriptor(<<"a","p","i","K","e","y">>) EXCEPT !.token = Str(<<"k","3","y">>),
                                             !.headerName = Str(DefaultApiKeyHeader)]]}

BuildRequestConfigInputs ==
  {[context |-> [apiName |-> <<"n","s">>, tool |-> tool, authConfig |-> stored], args |-> args] :
     tool \in RequestTools, stored \in RequestAuthConfigs, args \in RequestArgs}

ApplyBuildRequestConfig ==
  /\ probe.fn = "buildRequestConfig"
  /\ probe.out = Pending
  /\ UNCHANGED serverVars
  /\ probe' = [probe EXCEPT !.out = [config |-> buildRequestConfig(probe.in.context, probe.in.args)]]

NoProbe == [fn |-> "none", in |-> <<>>, out |-> <<>>]

\* new OpenAPIMCPServer({ specsPath }), as the list command and a program
\* that imports the class construct it.
DefaultConfig == [transportType |-> "stdio", port |-> Undefined]

ServerCreated ==
  /\ pc = "created"
  /\ config = DefaultConfig
  /\ transport = "none"
  /\ builtInTools = <<>>
  /\ specCalls = <<>>
  /\ existingFiles = <<>>
  /\ authConfig = EmptyMap
  /\ parsedSpecs = EmptyMap
  /\ registered = <<>>
  /\ calls = <<>>

\* A function applied on its own: the server is constructed and never started.
InitFunctions ==
  /\ \/ probe \in [fn : {"generateToolName"}, in : GenerateToolNameInputs, out : {Pending}]
     \/ probe \in [fn : {"getApiNameFromFile"}, in : GetApiNameInputs, out : {Pending}]
     \/ probe \in [fn : {"buildUrl"}, in : BuildUrlInputs, out : {Pending}]
     \/ probe \in [fn : {"applyAuthentication"}, in : ApplyAuthenticationInputs, out : {Pending}]
     \/ probe \in [fn : {"formatResponse"}, in : FormatResponseInputs, out : {Pending}]
     \/ probe \in [fn : {"generateToolsFromSpec"}, in : CompilerDocs, out : {Pending}]
     \/ probe \in [fn : {"loadAuthConfig"}, in : LoadAuthConfigInputs, out : {Pending}]
     \/ probe \in [fn : {"extractParameters"}, in : ExtractParametersInputs, out : {Pending}]
     \/ probe \in [fn : {"buildZodSchema"}, in : BuildZodSchemaInputs, out : {Pending}]
     \/ probe \in [fn : {"buildRequestConfig"}, in : BuildRequestConfigInputs, out : {Pending}]
  /\ ServerCreated
  /\ host = 0
  /\ dir = <<>>
  /\ envFile = [exists |-> FALSE, entries |-> <<>>]
  /\ processEnv = <<>>
  /\ launchEnv = <<>>
  /\ release = "1.0.0"
  /\ config = DefaultConfig
  /\ transport = "none"

----------------------------------------------------------------------------
(* src/server.ts *)

ContentOf(filePath) ==
  dir[CHOOSE i \in DOMAIN dir : pathJoin(specsPath, dir[i][1]) = filePath][2]

\* getExistingFiles: the entries isOpenAPIFile accepts, joined to the directory.
getExistingFiles ==
  LET filtered == SelectSeq(dir, LAMBDA e : isOpenAPIFile(e[1]))
  IN [i \in DOMAIN filtered |-> pathJoin(specsPath, filtered[i][1])]

\* registerToolsFromSpec: one addTool per tool, each closure holding spec and tool.
registerToolsFromSpec(spec) ==
  [i \in DOMAIN spec.tools |->
     [name        |-> spec.tools[i].name,
      description |-> spec.tools[i].description,
      parameters  |-> buildZodSchema(spec.tools[i]),
      spec        |-> [apiName |-> spec.apiName, filePath |-> spec.filePath],
      tool        |-> spec.tools[i]]]

\* The names registerBuiltInTools registers, in its order.
BuiltInToolNames ==
  <<<<"s","p","e","c","b","r","i","d","g","e","_","l","i","s","t","_","s","p","e","c","s">>, <<"s","p","e","c","b","r","i","d","g","e","_","g","e","t","_","s","p","e","c">>, <<"s","p","e","c","b","r","i","d","g","e","_","u","p","d","a","t","e","_","s","p","e","c">>, <<"s","p","e","c","b","r","i","d","g","e","_","d","o","w","n","l","o","a","d","_","s","p","e","c">>>>

\* The ParsedSpec registerApisGuruTools makes up; each description is cut after its
\* first sentence.
apisGuruSpec ==
  LET ApisGuruTool(name, description, path, parameters) ==
        [name |-> name, description |-> description, operationId |-> Undefined, method |-> <<"G","E","T">>,
         path |-> path, parameters |-> parameters, requestBody |-> Undefined,
         baseUrl |-> <<"h","t","t","p","s",":","/","/","a","p","i",".","a","p","i","s",".","g","u","r","u","/","v","2">>]
  IN [apiName  |-> <<"a","p","i","s","g","u","r","u">>,
      filePath |-> <<"<","b","u","i","l","t","-","i","n",">">>,
      tools    |-> <<ApisGuruTool(<<"a","p","i","s","g","u","r","u","_","g","e","t","P","r","o","v","i","d","e","r","s">>,
                                  <<"G","e","t"," ","a"," ","l","i","s","t"," ","o","f"," ","a","l","l"," ","A","P","I"," ","p","r","o","v","i","d","e","r","s"," ","i","n"," ","t","h","e"," ","A","P","I","s",".","g","u","r","u"," ","d","i","r","e","c","t","o","r","y"," ","(","e",".","g",".",","," ","\"","g","o","o","g","l","e","a","p","i","s",".","c","o","m","\"",","," ","\"","g","i","t","h","u","b",".","c","o","m","\"",","," ","\"","s","t","r","i","p","e",".","c","o","m","\"",")",".">>,
                                  <<"/","p","r","o","v","i","d","e","r","s",".","j","s","o","n">>, <<>>),
                     ApisGuruTool(<<"a","p","i","s","g","u","r","u","_","g","e","t","P","r","o","v","i","d","e","r">>,
                                  <<"L","i","s","t"," ","a","l","l"," ","A","P","I","s"," ","a","v","a","i","l","a","b","l","e"," ","f","r","o","m"," ","a"," ","s","p","e","c","i","f","i","c"," ","p","r","o","v","i","d","e","r",".">>,
                                  <<"/","{","p","r","o","v","i","d","e","r","}",".","j","s","o","n">>,
                                  <<[name |-> <<"p","r","o","v","i","d","e","r">>, in |-> <<"p","a","t","h">>, required |-> Bool(TRUE),
                                     schema |-> [schema |-> <<"s","t","r","i","n","g">>],
                                     description |-> Str(<<"P","r","o","v","i","d","e","r"," ","n","a","m","e"," ","(","e",".","g",".",","," ","\"","s","t","r","i","p","e",".","c","o","m","\"",","," ","\"","g","i","t","h","u","b",".","c","o","m","\"",","," ","\"","o","p","e","n","a","i",".","c","o","m","\"",")">>)]>>),
                     ApisGuruTool(<<"a","p","i","s","g","u","r","u","_","g","e","t","M","e","t","r","i","c","s">>,
                                  <<"G","e","t"," ","b","a","s","i","c"," ","s","t","a","t","i","s","t","i","c","s"," ","a","b","o","u","t"," ","t","h","e"," ","A","P","I","s",".","g","u","r","u"," ","d","i","r","e","c","t","o","r","y",","," ","i","n","c","l","u","d","i","n","g"," ","t","o","t","a","l"," ","n","u","m","b","e","r"," ","o","f"," ","A","P","I","s",","," ","e","n","d","p","o","i","n","t","s",","," ","a","n","d"," ","p","r","o","v","i","d","e","r","s",".">>,
                                  <<"/","m","e","t","r","i","c","s",".","j","s","o","n">>, <<>>)>>]

\* The default action of the command line up to server.start(): httpStream
\* without a port ends the process, anything else constructs the server.
CliAction ==
  /\ pc = "launched"
  /\ pc' = IF config.transportType = "httpStream" /\ ~Truthy(config.port)
           THEN "exited" ELSE "created"
  /\ UNCHANGED <<probe, host, launchEnv, release, config, transport, builtInTools, specCalls, dir, envFile, processEnv,
                 existingFiles, authConfig, parsedSpecs, registered, calls>>

\* start(), up to the first file: the credential map is built, release 1.0.2
\* registers its built-in tools and those of APIs.guru, and the directory is read.
Start ==
  /\ pc = "created"
  /\ probe = NoProbe
  /\ authConfig' = loadAuthConfig(processEnv, envFile)
  /\ processEnv' = loadAuthConfigEnv(processEnv, envFile)
  /\ builtInTools' = IF release = "1.0.2" THEN BuiltInToolNames ELSE builtInTools
  /\ registered' = IF release = "1.0.2" THEN registered \o registerToolsFromSpec(apisGuruSpec)
                   ELSE registered
  /\ existingFiles' = getExistingFiles
  /\ pc' = "loading"
  /\ UNCHANGED <<probe, host, launchEnv, release, config, transport, specCalls, dir, envFile, parsedSpecs, calls>>

\* handleSpecAdded around a parseOpenAPISpec that lets the failure of
\* SwaggerParser.validate escape: start() is rejected and nothing is served.
HandleSpecAdded_WithoutCatch ==
  /\ pc = "loading"
  /\ existingFiles # <<>>
  /\ LET filePath   == Head(existingFiles)
         parsedSpec == parseOpenAPISpec(filePath, ContentOf(filePath))
     IN IF Truthy(parsedSpec)
        THEN /\ parsedSpecs' = (filePath :> parsedSpec.parsed) @@ parsedSpecs
             /\ registered' = registered \o registerToolsFromSpec(parsedSpec.parsed)
             /\ pc' = pc
        ELSE /\ UNCHANGED <<parsedSpecs, registered>>
             /\ pc' = "failed"
  /\ existingFiles' = Tail(existingFiles)
  /\ UNCHANGED <<probe, host, launchEnv, release, config, transport, builtInTools, specCalls, dir, envFile, processEnv, authConfig, calls>>

\* One iteration of loadExistingSpecs: handleSpecAdded(filePath).
HandleSpecAdded ==
  /\ pc = "loading"
  /\ existingFiles # <<>>
  /\ LET filePath   == Head(existingFiles)
         parsedSpec == parseOpenAPISpec(filePath, ContentOf(filePath))
     IN IF Truthy(parsedSpec)
        THEN /\ parsedSpecs' = (filePath :> parsedSpec.parsed) @@ parsedSpecs
             /\ registered' = registered \o registerToolsFromSpec(parsedSpec.parsed)
        ELSE UNCHANGED <<parsedSpecs, registered>>
  /\ existingFiles' = Tail(existingFiles)
  /\ UNCHANGED <<probe, host, launchEnv, release, config, transport, builtInTools, specCalls, pc, dir, envFile, processEnv, authConfig, calls>>

\* start() with fastMCP.start ahead of the loop of loadExistingSpecs.
StartTransport_BeforeLoading ==
  /\ pc = "loading"
  /\ pc' = "serving"
  /\ transport' = IF config.transportType = "httpStream" /\ Truthy(config.port)
                  THEN "httpStream" ELSE "stdio"
  /\ UNCHANGED <<probe, host, launchEnv, release, config, builtInTools, specCalls, dir, envFile, processEnv, existingFiles, authConfig, parsedSpecs,
                 registered, calls>>

\* The rest of start(): fastMCP.start once every file has been handled.
StartTransport ==
  /\ pc = "loading"
  /\ existingFiles = <<>>
  /\ pc' = "serving"
  /\ transport' = IF config.transportType = "httpStream" /\ Truthy(config.port)
                  THEN "httpStream" ELSE "stdio"
  /\ UNCHANGED <<probe, host, launchEnv, release, config, builtInTools, specCalls, dir, envFile, processEnv, existingFiles, authConfig, parsedSpecs,
                 registered, calls>>

\* The 'connect' handler; file is the .env file as the user has left it by then.
Connect(file) ==
  /\ pc = "serving"
  /\ host > 0
  /\ envFile' = file
  /\ authConfig' = loadAuthConfig(processEnv, file)
  /\ processEnv' = loadAuthConfigEnv(processEnv, file)
  /\ UNCHANGED <<probe, host, launchEnv, release, config, transport, builtInTools, specCalls, pc, dir, existingFiles, parsedSpecs, registered, calls>>

\* The execute closure of registered tool r up to its await: the context is built
\* and the request handed to axios, or building the request throws and the catch
\* block describes the error.
Invoke(r, args) ==
  /\ pc = "serving"
  /\ Len(calls) < host
  /\ LET context == [apiName    |-> registered[r].spec.apiName,
                     tool       |-> registered[r].tool,
                     authConfig |-> AuthLookup(authConfig, registered[r].spec.apiName)]
     IN calls' = Append(calls,
                        IF buildRequestConfigThrows(context, args)
                        THEN [tool    |-> r,
                              args    |-> args,
                              context |-> context,
                              request |-> Undefined,
                              phase   |-> "done",
                              outcome |-> [error |-> URIError],
                              result  |-> ErrorText(URIError)]
                        ELSE [tool    |-> r,
                              args    |-> args,
                              context |-> context,
                              request |-> buildRequestConfig(context, args),
                              phase   |-> "sent",
                              outcome |-> Pending,
                              result  |-> <<>>])
  /\ UNCHANGED <<probe, host, launchEnv, release, config, transport, builtInTools, specCalls, pc, dir, envFile, processEnv, existingFiles, authConfig, parsedSpecs,
                 registered>>

\* executeRequest after the await as it would be if the context read this.authConfig
\* again once the HTTP call has ended.
Settle_LooksUpAgain(c, outcome) ==
  /\ calls[c].phase = "sent"
  /\ calls' = [calls EXCEPT ![c].phase = "done",
                            ![c].outcome = outcome,
                            ![c].context.authConfig = AuthLookup(authConfig, calls[c].context.apiName),
                            ![c].result = IF "response" \in DOMAIN outcome
                                          THEN formatResponse(outcome.response)
                                          ELSE ErrorText(outcome.error)]
  /\ UNCHANGED <<probe, host, launchEnv, release, config, transport, builtInTools, specCalls, pc, dir, envFile, processEnv, existingFiles, authConfig, parsedSpecs,
                 registered>>

\* executeRequest after the await as it would be without its catch block: an error
\* of the HTTP call rejects the promise of execute.
Settle_WithoutCatch(c, outcome) ==
  /\ calls[c].phase = "sent"
  /\ calls' = [calls EXCEPT ![c].phase = IF "response" \in DOMAIN outcome THEN "done" ELSE "rejected",
                            ![c].outcome = outcome,
                            ![c].result = IF "response" \in DOMAIN outcome
                                          THEN formatResponse(outcome.response)
                                          ELSE <<>>]
  /\ UNCHANGED <<probe, host, launchEnv, release, config, transport, builtInTools, specCalls, pc, dir, envFile, processEnv, existingFiles, authConfig, parsedSpecs,
                 registered>>

\* executeRequest after the await: the response is formatted, the error described.
Settle(c, outcome) ==
  /\ calls[c].phase = "sent"
  /\ calls' = [calls EXCEPT ![c].phase = "done",
                            ![c].outcome = outcome,
                            ![c].result = IF "response" \in DOMAIN outcome
                                          THEN formatResponse(outcome.response)
                                          ELSE ErrorText(outcome.error)]
  /\ UNCHANGED <<probe, host, launchEnv, release, config, transport, builtInTools, specCalls, pc, dir, envFile, processEnv, existingFiles, authConfig, parsedSpecs,
                 registered>>

\* A constructed server before one document, under an environment without
\* credentials and each .env file, with a host that makes MaxInFlight calls.
InitConcurrent ==
  /\ probe = NoProbe
  /\ ServerCreated
  /\ dir \in ConcurrentListings /\ processEnv = <<>> /\ envFile \in EnvFiles /\ host = MaxInFlight
  /\ launchEnv = processEnv
  /\ release = "1.0.0"

\* A constructed server with the built-in tools, before one document, whose host
\* only manages documents: it makes MaxSpecCalls calls of built-in tools.
InitManaged ==
  /\ probe = NoProbe
  /\ ServerCreated
  /\ dir \in ConcurrentListings /\ processEnv = <<>> /\ envFile = NoEnvFile /\ host = 0
  /\ launchEnv = processEnv
  /\ release = "1.0.2"

\* A constructed server: before any directory of at most MaxFiles files with no
\* host attached, before the two-document directory under each environment and
\* .env file with a host that makes MaxCalls calls, or as InitConcurrent or
\* InitManaged has it.
\* The options commander hands the default action: --transport and --port.
CliConfigs ==
  {[transportType |-> "stdio", port |-> Undefined],
   [transportType |-> "stdio", port |-> Num(<<"8","0","8","0">>)],
   [transportType |-> "httpStream", port |-> Undefined],
   [transportType |-> "httpStream", port |-> Num(<<"0">>)],
   [transportType |-> "httpStream", port |-> Num(<<"N","a","N">>)],
   [transportType |-> "httpStream", port |-> Num(<<"8","0","8","0">>)]}

\* The process as the command line starts it: no server is constructed yet.
InitLaunched ==
  /\ probe = NoProbe
  /\ pc = "launched"
  /\ config \in CliConfigs
  /\ transport = "none"
  /\ builtInTools = <<>> /\ specCalls = <<>> /\ existingFiles = <<>>
  /\ authConfig = EmptyMap /\ parsedSpecs = EmptyMap /\ registered = <<>> /\ calls = <<>>
  /\ \/ release = "1.0.0" /\ dir \in Listings
     \/ release = "1.0.2" /\ dir \in ConcurrentListings
  /\ processEnv = <<>> /\ envFile = NoEnvFile /\ host = 0
  /\ launchEnv = processEnv

InitServer ==
  \/ /\ probe = NoProbe
     /\ ServerCreated
     /\ \/ dir \in Listings /\ processEnv = <<>> /\ envFile = NoEnvFile /\ host = 0
        \/ dir \in ServingListings /\ processEnv \in ProcessEnvs /\ envFile \in EnvFiles /\ host = MaxCalls
     /\ launchEnv = processEnv
     /\ release = "1.0.0"
  \/ InitConcurrent
  \/ InitManaged
  \/ InitLaunched

----------------------------------------------------------------------------
(* The built-in tools of release 1.0.2 *)

\* The calls of built-in tools the managing host makes.
MaxSpecCalls == 1

\* Date.now() at the n-th call, as the digits of its decimal form.
DateNow(n) == <<"1","7","0","0","0","0","0","0","0","0","0","0">> \o <<<<"0","1","2","3","4","5","6","7","8","9">>[(n % 10) + 1]>>

\* The security check of the three tools: the resolved path starts with the
\* resolved specs directory.
PassesSecurityCheck(filePath) ==
  LET resolvedPath      == pathResolve(filePath)
      resolvedSpecsPath == pathResolve(specsPath)
  IN startsWith(resolvedPath, resolvedSpecsPath)

\* The place of filePath in the listing of the specs directory, 0 when it is not
\* an entry of it.
EntryAt(filePath) ==
  IF \E i \in DOMAIN dir : pathJoin(specsPath, dir[i][1]) = filePath
  THEN CHOOSE i \in DOMAIN dir : pathJoin(specsPath, dir[i][1]) = filePath
  ELSE 0

\* Whether a file is at filePath; elsewhere says so for a path that is not an
\* entry of the specs directory.
FileExists(filePath, elsewhere) == EntryAt(filePath) # 0 \/ elsewhere

\* The specs directory once content has been written to filePath: an entry is
\* replaced or added when the path is an entry of the directory, and the
\* listing is as it was when the file lies elsewhere.
WriteFile(listing, filePath, content) ==
  IF \E i \in DOMAIN listing : pathJoin(specsPath, listing[i][1]) = filePath
  THEN [i \in DOMAIN listing |->
         IF pathJoin(specsPath, listing[i][1]) = filePath THEN <<listing[i][1], content>>
         ELSE listing[i]]
  ELSE IF pathJoin(specsPath, basename(filePath)) = filePath
       THEN Append(listing, <<basename(filePath), content>>)
       ELSE listing

\* What SwaggerParser.validate makes of text once it is in a file: the document
\* it holds, or [invalid |-> TRUE].
Validated(content) == IF "doc" \in DOMAIN content THEN content ELSE [invalid |-> TRUE]

\* The texts a call of a built-in tool returns, each cut after its first sentence.
AccessDenied == <<"E","r","r","o","r",":"," ","A","c","c","e","s","s"," ","d","e","n","i","e","d","."," ","F","i","l","e"," ","m","u","s","t"," ","b","e"," ","w","i","t","h","i","n"," ","t","h","e"," ","s","p","e","c","s"," ","d","i","r","e","c","t","o","r","y",".">>

NotASpecFile(filename) ==
  <<"E","r","r","o","r",":"," ","\"">> \o filename \o <<"\""," ","i","s"," ","n","o","t"," ","a"," ","v","a","l","i","d"," ","O","p","e","n","A","P","I"," ","s","p","e","c","i","f","i","c","a","t","i","o","n"," ","f","i","l","e","."," ","M","u","s","t"," ","b","e"," ",".","j","s","o","n",","," ",".","y","a","m","l",","," ","o","r"," ",".","y","m","l",".">>

NotASpecFilename(filename) ==
  <<"E","r","r","o","r",":"," ","\"">> \o filename \o <<"\""," ","i","s"," ","n","o","t"," ","a"," ","v","a","l","i","d"," ","O","p","e","n","A","P","I"," ","s","p","e","c","i","f","i","c","a","t","i","o","n"," ","f","i","l","e","n","a","m","e","."," ","M","u","s","t"," ","e","n","d"," ","w","i","t","h"," ",".","j","s","o","n",","," ",".","y","a","m","l",","," ","o","r"," ",".","y","m","l",".">>

SpecCall(tool, filename, result, touched) ==
  [tool |-> tool, filename |-> filename, result |-> result, touched |-> touched]

\* specbridge_get_spec.
GetSpec(filename, elsewhere) ==
  /\ pc = "serving"
  /\ <<"s","p","e","c","b","r","i","d","g","e","_","g","e","t","_","s","p","e","c">> \in Range(builtInTools)
  /\ Len(specCalls) < MaxSpecCalls
  /\ LET filePath == pathJoin(specsPath, filename)
         ended    ==
           IF ~PassesSecurityCheck(filePath) THEN SpecCall(<<"s","p","e","c","b","r","i","d","g","e","_","g","e","t","_","s","p","e","c">>, filename, AccessDenied, {})
           ELSE IF ~isOpenAPIFile(filename)
           THEN SpecCall(<<"s","p","e","c","b","r","i","d","g","e","_","g","e","t","_","s","p","e","c">>, filename, NotASpecFile(filename), {})
           ELSE IF FileExists(filePath, elsewhere)
           THEN SpecCall(<<"s","p","e","c","b","r","i","d","g","e","_","g","e","t","_","s","p","e","c">>, filename, <<"C","o","n","t","e","n","t"," ","o","f"," ">> \o filename \o <<":">>,
                         {<<"read", filePath>>})
           ELSE SpecCall(<<"s","p","e","c","b","r","i","d","g","e","_","g","e","t","_","s","p","e","c">>, filename,
                         <<"E","r","r","o","r",":"," ","F","i","l","e"," ","\"">> \o filename \o <<"\""," ","n","o","t"," ","f","o","u","n","d"," ","i","n"," ","s","p","e","c","s"," ","d","i","r","e","c","t","o","r","y",".">>, {})
     IN specCalls' = Append(specCalls, ended)
  /\ UNCHANGED <<probe, host, launchEnv, release, config, transport, builtInTools, pc, dir, envFile, processEnv,
                 existingFiles, authConfig, parsedSpecs, registered, calls>>

\* specbridge_update_spec, which parses what it wrote and calls handleSpecAdded.
UpdateSpec_Reloads(filename, content, elsewhere) ==
  /\ pc = "serving"
  /\ <<"s","p","e","c","b","r","i","d","g","e","_","u","p","d","a","t","e","_","s","p","e","c">> \in Range(builtInTools)
  /\ Len(specCalls) < MaxSpecCalls
  /\ PassesSecurityCheck(pathJoin(specsPath, filename))
  /\ isOpenAPIFile(filename)
  /\ "doc" \in DOMAIN content
  /\ LET filePath   == pathJoin(specsPath, filename)
         parsedSpec == parseOpenAPISpec(filePath, content)
     IN /\ dir' = WriteFile(dir, filePath, content)
        /\ parsedSpecs' = (filePath :> parsedSpec.parsed) @@ parsedSpecs
        /\ registered' = registered \o registerToolsFromSpec(parsedSpec.parsed)
        /\ specCalls' = Append(specCalls,
                               SpecCall(<<"s","p","e","c","b","r","i","d","g","e","_","u","p","d","a","t","e","_","s","p","e","c">>, filename,
                                        <<"U+2705">> \o <<" ","S","u","c","c","e","s","s","f","u","l","l","y"," ","u","p","d","a","t","e","d"," ","\"">> \o filename \o <<"\"",".">>,
                                        {<<"write", filePath>>}))
  /\ UNCHANGED <<probe, host, launchEnv, release, config, transport, builtInTools, pc, envFile, processEnv,
                 existingFiles, authConfig, calls>>

\* specbridge_update_spec.  content is [doc |-> document], [invalid |-> TRUE] for
\* text that is JSON and YAML but no OpenAPI document, or [malformed |-> TRUE] for
\* text JSON.parse rejects; it is never blank.
UpdateSpec(filename, content, elsewhere) ==
  /\ pc = "serving"
  /\ <<"s","p","e","c","b","r","i","d","g","e","_","u","p","d","a","t","e","_","s","p","e","c">> \in Range(builtInTools)
  /\ Len(specCalls) < MaxSpecCalls
  /\ LET filePath   == pathJoin(specsPath, filename)
         backupPath == filePath \o <<".","b","a","c","k","u","p",".">> \o DateNow(Len(specCalls))
         backedUp   == IF FileExists(filePath, elsewhere)
                       THEN {<<"read", filePath>>, <<"write", backupPath>>}
                       ELSE {}
         withBackup == IF EntryAt(filePath) # 0
                       THEN WriteFile(dir, backupPath, dir[EntryAt(filePath)][2])
                       ELSE dir
         parsedSpec == parseOpenAPISpec(filePath, Validated(content))
     IN IF ~PassesSecurityCheck(filePath)
        THEN /\ specCalls' = Append(specCalls, SpecCall(<<"s","p","e","c","b","r","i","d","g","e","_","u","p","d","a","t","e","_","s","p","e","c">>, filename, AccessDenied, {}))
             /\ dir' = dir
        ELSE IF ~isOpenAPIFile(filename)
        THEN /\ specCalls' = Append(specCalls,
                                    SpecCall(<<"s","p","e","c","b","r","i","d","g","e","_","u","p","d","a","t","e","_","s","p","e","c">>, filename, NotASpecFile(filename), {}))
             /\ dir' = dir
        ELSE IF endsWith(filename, <<".","j","s","o","n">>) /\ "malformed" \in DOMAIN content
        THEN /\ specCalls' = Append(specCalls,
                                    SpecCall(<<"s","p","e","c","b","r","i","d","g","e","_","u","p","d","a","t","e","_","s","p","e","c">>, filename,
                                             <<"E","r","r","o","r",":"," ","I","n","v","a","l","i","d"," ","J","S","O","N"," ","c","o","n","t","e","n","t",".">>, {}))
             /\ dir' = dir
        ELSE /\ dir' = WriteFile(withBackup, filePath, Validated(content))
             /\ specCalls' = Append(specCalls,
                  SpecCall(<<"s","p","e","c","b","r","i","d","g","e","_","u","p","d","a","t","e","_","s","p","e","c">>, filename,
                           IF Truthy(parsedSpec)
                           THEN <<"U+2705">> \o <<" ","S","u","c","c","e","s","s","f","u","l","l","y"," ","u","p","d","a","t","e","d"," ","\"">> \o filename \o <<"\"",".">>
                           ELSE <<"U+26A0", "U+FE0F">> \o <<" ","F","i","l","e"," ","\"">> \o filename
                                  \o <<"\""," ","w","a","s"," ","u","p","d","a","t","e","d"," ","b","u","t"," ","f","a","i","l","e","d"," ","O","p","e","n","A","P","I"," ","v","a","l","i","d","a","t","i","o","n",".">>,
                           backedUp \cup {<<"write", filePath>>}))
  /\ UNCHANGED <<probe, host, launchEnv, release, config, transport, builtInTools, pc, envFile, processEnv,
                 existingFiles, authConfig, parsedSpecs, registered, calls>>

\* specbridge_download_spec.  fetched is how axios.get ends: [data |-> content]
\* or [error |-> error].
DownloadSpec(filename, fetched, elsewhere) ==
  /\ pc = "serving"
  /\ <<"s","p","e","c","b","r","i","d","g","e","_","d","o","w","n","l","o","a","d","_","s","p","e","c">> \in Range(builtInTools)
  /\ Len(specCalls) < MaxSpecCalls
  /\ LET filePath   == pathJoin(specsPath, filename)
         parsedSpec == parseOpenAPISpec(filePath, Validated(fetched.data))
         status     == IF IsUndefined(fetched.error.response) THEN Str(<<"U","n","k","n","o","w","n">>)
                       ELSE OrElse(fetched.error.response.status, Str(<<"U","n","k","n","o","w","n">>))
     IN IF ~isOpenAPIFile(filename)
        THEN /\ specCalls' = Append(specCalls,
                                    SpecCall(<<"s","p","e","c","b","r","i","d","g","e","_","d","o","w","n","l","o","a","d","_","s","p","e","c">>, filename, NotASpecFilename(filename), {}))
             /\ dir' = dir
        ELSE IF toLowerCase(filename) \in {<<"o","p","e","n","a","p","i",".","j","s","o","n">>, <<"o","p","e","n","a","p","i",".","y","a","m","l">>, <<"o","p","e","n","a","p","i",".","y","m","l">>}
        THEN /\ specCalls' = Append(specCalls,
                  SpecCall(<<"s","p","e","c","b","r","i","d","g","e","_","d","o","w","n","l","o","a","d","_","s","p","e","c">>, filename,
                           <<"E","r","r","o","r",":"," ","P","l","e","a","s","e"," ","c","h","o","o","s","e"," ","a"," ","m","o","r","e"," ","d","e","s","c","r","i","p","t","i","v","e"," ","f","i","l","e","n","a","m","e"," ","i","n","s","t","e","a","d"," ","o","f"," ","\"">> \o filename \o <<"\"",".">>,
                           {}))
             /\ dir' = dir
        ELSE IF ~PassesSecurityCheck(filePath)
        THEN /\ specCalls' = Append(specCalls, SpecCall(<<"s","p","e","c","b","r","i","d","g","e","_","d","o","w","n","l","o","a","d","_","s","p","e","c">>, filename, AccessDenied, {}))
             /\ dir' = dir
        ELSE IF FileExists(filePath, elsewhere)
        THEN /\ specCalls' = Append(specCalls,
                  SpecCall(<<"s","p","e","c","b","r","i","d","g","e","_","d","o","w","n","l","o","a","d","_","s","p","e","c">>, filename,
                           <<"E","r","r","o","r",":"," ","F","i","l","e"," ","\"">> \o filename \o <<"\""," ","a","l","r","e","a","d","y"," ","e","x","i","s","t","s",".">>, {}))
             /\ dir' = dir
        ELSE IF "error" \in DOMAIN fetched
        THEN /\ specCalls' = Append(specCalls,
                  SpecCall(<<"s","p","e","c","b","r","i","d","g","e","_","d","o","w","n","l","o","a","d","_","s","p","e","c">>, filename,
                           <<"E","r","r","o","r"," ","d","o","w","n","l","o","a","d","i","n","g"," ","s","p","e","c",":"," ","H","T","T","P"," ">> \o String(status) \o <<" ","-"," ">> \o fetched.error.message,
                           {}))
             /\ dir' = dir
        ELSE /\ dir' = WriteFile(dir, filePath, Validated(fetched.data))
             /\ specCalls' = Append(specCalls,
                  SpecCall(<<"s","p","e","c","b","r","i","d","g","e","_","d","o","w","n","l","o","a","d","_","s","p","e","c">>, filename,
                           IF Truthy(parsedSpec)
                           THEN <<"U+2705">> \o <<" ","S","u","c","c","e","s","s","f","u","l","l","y"," ","d","o","w","n","l","o","a","d","e","d"," ","a","n","d"," ","s","a","v","e","d"," ","\"">> \o filename \o <<"\"",".">>
                           ELSE <<"U+26A0", "U+FE0F">> \o <<" ","D","o","w","n","l","o","a","d","e","d"," ","\"">> \o filename
                                  \o <<"\""," ","b","u","t"," ","i","t"," ","f","a","i","l","e","d"," ","O","p","e","n","A","P","I"," ","v","a","l","i","d","a","t","i","o","n",".">>,
                           {<<"mkdir", specsPath>>, <<"write", filePath>>}))
  /\ UNCHANGED <<probe, host, launchEnv, release, config, transport, builtInTools, pc, envFile, processEnv,
                 existingFiles, authConfig, parsedSpecs, registered, calls>>

\* The filename arguments: two entries of the directory, a new name, a name
\* that is no document, the name download refuses, and two paths that leave
\* the directory, the first into a sibling whose name begins like its own.
Filenames ==
  {<<"p","e","t","s","t","o","r","e",".","j","s","o","n">>, <<"a","p","i",".","y","a","m","l">>, <<"n","e","w",".","y","a","m","l">>, <<"n","o","t","e","s",".","t","x","t">>, <<"o","p","e","n","a","p","i",".","j","s","o","n">>,
   <<".",".","/","s","p","e","c","s","-","e","v","i","l","/","x",".","j","s","o","n">>, <<".",".","/","e","t","c","/","x",".","j","s","o","n">>}

Contents == {[doc |-> RelativeServer], [invalid |-> TRUE], [malformed |-> TRUE]}

Downloads ==
  {[data |-> [doc |-> RelativeServer]], [data |-> [invalid |-> TRUE]],
   [error |-> [isAxiosError |-> TRUE, message |-> <<"t","i","m","e","o","u","t"," ","o","f"," ","3","0","0","0","0","m","s"," ","e","x","c","e","e","d","e","d">>, response |-> Undefined]]}

NextBuiltIn ==
  \/ \E filename \in Filenames : \E elsewhere \in BOOLEAN : GetSpec(filename, elsewhere)
  \/ \E filename \in Filenames : \E content \in Contents : \E elsewhere \in BOOLEAN :
       UpdateSpec(filename, content, elsewhere)
  \/ \E filename \in Filenames : \E fetched \in Downloads : \E elsewhere \in BOOLEAN :
       DownloadSpec(filename, fetched, elsewhere)

NextServer ==
  \/ Start
  \/ HandleSpecAdded
  \/ StartTransport
  \/ \E file \in EnvFiles : Connect(file)
  \/ \E r \in DOMAIN registered : \E optional, malformed \in BOOLEAN :
       Invoke(r, ArgsOf(registered[r].tool, optional, malformed))
  \/ \E c \in DOMAIN calls : \E outcome \in Outcomes : Settle(c, outcome)

NextFunctions ==
  \/ ApplyGenerateToolName
  \/ ApplyGetApiNameFromFile
  \/ ApplyBuildUrl
  \/ ApplyApplyAuthentication
  \/ ApplyFormatResponse
  \/ ApplyGenerateToolsFromSpec
  \/ ApplyLoadAuthConfig
  \/ ApplyExtractParameters
  \/ ApplyBuildZodSchema
  \/ ApplyBuildRequestConfig

Init == InitFunctions \/ InitServer

NextCli == CliAction

Next == NextFunctions \/ NextServer \/ NextBuiltIn \/ NextCli

Spec == Init /\ [][Next]_vars

\* axios ends every call it was handed: with a response, with an error, or, after
\* TimeoutMs, with the timeout error.
CallSettles(c) == \E outcome \in Outcomes : c \in DOMAIN calls /\ Settle(c, outcome)

SpecLive ==
  InitConcurrent /\ [][NextServer]_vars /\ \A c \in 1..MaxInFlight : WF_vars(CallSettles(c))

----------------------------------------------------------------------------
(* Claims *)

Applied(fn) == probe.fn = fn /\ probe.out # Pending

\* The calls whose request was built and handed to axios.
Requests == {c \in DOMAIN calls : calls[c].request # Undefined}

----------------------------------------------------------------------------
(* Uniqueness of registered names (C1) *)

\* C1 as stated: no two registered Tool Definitions have the same name, be they
\* compiled from the same document or from different documents.
C1_RegisteredNamesDistinct ==
  \A i, j \in DOMAIN registered : i # j => registered[i].name # registered[j].name

\* C1 amended: two registered Tool Definitions compiled from documents with different
\* namespaces never have the same name, and within one namespace two operations with
\* different non-empty operationIds have different names.
C1_NamesDistinctAcrossNamespaces ==
  \A i, j \in DOMAIN registered :
    /\ registered[i].spec.apiName # registered[j].spec.apiName
         => registered[i].name # registered[j].name
    /\ (/\ registered[i].spec.apiName = registered[j].spec.apiName
        /\ Truthy(registered[i].tool.operationId)
        /\ Truthy(registered[j].tool.operationId)
        /\ registered[i].tool.operationId # registered[j].tool.operationId)
         => registered[i].name # registered[j].name

\* Two documents with different namespaces loaded, one of them with an operationId
\* that starts with the other's namespace tail.
C1_Witness ==
  /\ pc = "serving"
  /\ Len(registered) = 8
  /\ \E i, j \in DOMAIN registered :
       /\ registered[i].spec.apiName = <<"a","b">>
       /\ registered[j].spec.apiName = <<"a">>
       /\ registered[i].name = <<"a","b","_","c">>
       /\ registered[j].name = <<"a","_","b","_","c">>

----------------------------------------------------------------------------
(* Tool names (C2, C3) *)

\* C2 as stated: for every operation that declares an operationId opId, the empty
\* string included, the tool name is ns + "_" + opId.
C2_NameIsNamespaceAndOperationId_AnyId ==
  (Applied("generateToolName") /\ IsString(probe.in.operation.operationId))
    => probe.out.str = probe.in.apiName \o <<"_">> \o probe.in.operation.operationId.str

\* C2 amended: for every operation whose operationId is a non-empty string, the tool
\* name is ns + "_" + opId, whatever the path, the method and the characters of opId.
C2_NameIsNamespaceAndOperationId ==
  (Applied("generateToolName") /\ IsString(probe.in.operation.operationId)
     /\ probe.in.operation.operationId.str # <<>>)
    => probe.out.str = probe.in.apiName \o <<"_">> \o probe.in.operation.operationId.str

C2_Witness ==
  /\ Applied("generateToolName")
  /\ probe.in.operation.operationId = Str(<<"g","e","t"," ","a","/","{","b","}">>)
  /\ probe.in.pathTemplate = <<"/","-">>
  /\ probe.in.method = <<"p","o","s","t">>
  /\ probe.out.str = probe.in.apiName \o <<"_","g","e","t"," ","a","/","{","b","}">>

\* The segments of a path template, read character by character: a "/" closes the
\* segment being read.
RECURSIVE ScanSegments(_, _, _)
ScanSegments(rest, current, done) ==
  IF rest = <<>> THEN Append(done, current)
  ELSE IF Head(rest) = "/" THEN ScanSegments(Tail(rest), <<>>, Append(done, current))
  ELSE ScanSegments(Tail(rest), Append(current, Head(rest)), done)

\* The segments that remain: not empty, not starting with "{".
RemainingSegments(pathTemplate) ==
  SelectSeq(ScanSegments(pathTemplate, <<>>, <<>>),
            LAMBDA seg : Len(seg) > 0 /\ seg[1] # "{")

AlnumOnly(seg) == SelectSeq(seg, LAMBDA c : IsAlnum(c))

RECURSIVE JoinedWithUnderscore(_)
JoinedWithUnderscore(segs) ==
  IF Len(segs) = 0 THEN <<>>
  ELSE AlnumOnly(segs[1])
       \o (IF Len(segs) = 1 THEN <<>> ELSE <<"_">> \o JoinedWithUnderscore(Tail(segs)))

NoOperationId(operation) == ~Truthy(operation.operationId)

\* C3 as stated: without an operationId the name is ns_method_pathName, pathName being
\* "root" when no segment remains and the joined stripped segments otherwise.
C3_SynthesizedName_RootWhenNoSegment ==
  (Applied("generateToolName") /\ NoOperationId(probe.in.operation))
    => LET segs     == RemainingSegments(probe.in.pathTemplate)
           pathName == IF segs = <<>> THEN <<"r","o","o","t">> ELSE JoinedWithUnderscore(segs)
       IN probe.out.str = probe.in.apiName \o <<"_">> \o probe.in.method \o <<"_">> \o pathName

\* C3 amended: without an operationId the name is ns_method_pathName, pathName being
\* the stripped remaining segments joined with "_", and "root" when that string is
\* empty (no segment remains, or the only one has no alphanumeric character).
C3_SynthesizedName ==
  (Applied("generateToolName") /\ NoOperationId(probe.in.operation))
    => LET joined   == JoinedWithUnderscore(RemainingSegments(probe.in.pathTemplate))
           pathName == IF joined = <<>> THEN <<"r","o","o","t">> ELSE joined
       IN /\ probe.out.str = probe.in.apiName \o <<"_">> \o probe.in.method \o <<"_">> \o pathName
          /\ (probe.in.pathTemplate = <<"/","a","/","{","i","d","}","/","b">> /\ probe.in.method = <<"g","e","t">>)
               => probe.out.str = probe.in.apiName \o <<"_","g","e","t","_","a","_","b">>
          /\ (probe.in.pathTemplate = <<"/">> /\ probe.in.method = <<"g","e","t">>)
               => probe.out.str = probe.in.apiName \o <<"_","g","e","t","_","r","o","o","t">>

C3_Witness ==
  /\ Applied("generateToolName")
  /\ probe.in.operation.operationId = Undefined
  /\ probe.in.pathTemplate = <<"/","a","/","{","i","d","}","/","b">>
  /\ probe.in.method = <<"g","e","t">>
  /\ probe.out.str = <<"p","e","t","s","t","o","r","e","_","g","e","t","_","a","_","b">>

----------------------------------------------------------------------------
(* Namespace and credential lookup (C4) *)

\* The positions of character c in s.
Positions(s, c) == {i \in DOMAIN s : s[i] = c}

Last(S) == CHOOSE i \in S : \A j \in S : j <= i

\* The base name of an identifier, the extension removed: what lies between the last
\* "/" and the last "." after it.
Stem(identifier) ==
  LET slashes == Positions(identifier, "/")
      base    == IF slashes = {} THEN identifier
                 ELSE SubSeq(identifier, Last(slashes) + 1, Len(identifier))
      dots    == Positions(base, ".")
  IN IF dots = {} THEN base ELSE SubSeq(base, 1, Last(dots) - 1)

\* Lowercased, every "-" and "_" removed.
Normalized(stem) ==
  LET kept == SelectSeq(stem, LAMBDA c : c # "-" /\ c # "_")
  IN [i \in DOMAIN kept |-> LowerChar(kept[i])]

\* An identifier of a document: a base name of at least one character before one of
\* the three extensions.
IsDocumentIdentifier(identifier) ==
  \E ext \in {<<".","j","s","o","n">>, <<".","y","a","m","l">>, <<".","y","m","l">>} :
    /\ Len(Stem(identifier)) > 0
    /\ Len(identifier) > Len(ext)
    /\ toLowerCase(SubSeq(identifier, Len(identifier) - Len(ext) + 1, Len(identifier))) = ext

C4_NamespaceOfIdentifier ==
  (Applied("getApiNameFromFile") /\ IsDocumentIdentifier(probe.in))
    => /\ probe.out.str = Normalized(Stem(probe.in))
       /\ Stem(probe.in) = <<"m","y","-","c","u","s","t","o","m","_","A","p","i">> => probe.out.str = <<"m","y","c","u","s","t","o","m","a","p","i">>

\* The tools APIs.guru's built-in ParsedSpec registers belong to no document.
C4_RegisteredUnderNamespace ==
  \A r \in DOMAIN registered :
    IsDocumentIdentifier(registered[r].spec.filePath)
      => registered[r].spec.apiName = Normalized(Stem(registered[r].spec.filePath))

\* entries without its i-th entry.
Without(entries, i) == SubSeq(entries, 1, i - 1) \o SubSeq(entries, i + 1, Len(entries))

\* The step that starts a call: the descriptor the call is executed with is the one
\* stored under the namespace of the tool's document.
C4_CallUsesNamespaceDescriptor ==
  Len(calls') = Len(calls) + 1 =>
    LET c      == calls'[Len(calls')]
        ns     == Normalized(Stem(registered[c.tool].spec.filePath))
        stored == IF ns \in DOMAIN authConfig THEN [desc |-> authConfig[ns]] ELSE Undefined
    IN /\ c.context.apiName = ns
       /\ c.context.authConfig = stored
       /\ \A i \in DOMAIN processEnv :
            LET key   == processEnv[i][1]
                value == processEnv[i][2]
                NAME  == SubSeq(key, 1, Len(key) - 8)
            IN (Len(key) > 8 /\ SubSeq(key, Len(key) - 7, Len(key)) = <<"_","A","P","I","_","K","E","Y">> /\ value # <<>>)
                 => /\ toLowerCase(NAME) = ns
                         => /\ stored # Undefined
                            /\ IsString(stored.desc.token)
                            /\ stored.desc.headerName = Str(<<"X","-","A","P","I","-","K","e","y">>)
                    /\ toLowerCase(NAME) # ns
                         => stored = AuthLookup(ScanEnv(EmptyMap, Without(processEnv, i)), ns)

----------------------------------------------------------------------------
(* One tool per defined operation (C5) *)

\* Parameters the compiler can read: none, or a list of parameter objects.
ReadableParameters(params) ==
  \/ params = Undefined
  \/ /\ "list" \in DOMAIN params
     /\ \A i \in DOMAIN params.list : DOMAIN params.list[i] \cap {"param", "ref"} # {}

\* C5: compiling a document yields exactly one Tool Definition per (path entry,
\* method) pair whose operation is defined and compiles, for the seven methods, in
\* document path order and within a path in the fixed method order, the method stored
\* in upper case; path entries that are not objects are skipped, and a document with
\* no paths or no operations yields the empty list.
C5_OneToolPerDefinedOperation ==
  Applied("generateToolsFromSpec") =>
    LET out     == probe.out.tools
        entries == IF probe.in.paths = Undefined THEN <<>> ELSE probe.in.paths.entries
        lower   == <<<<"g","e","t">>, <<"p","o","s","t">>, <<"p","u","t">>, <<"p","a","t","c","h">>, <<"d","e","l","e","t","e">>, <<"h","e","a","d">>, <<"o","p","t","i","o","n","s">>>>
        upper   == <<<<"G","E","T">>, <<"P","O","S","T">>, <<"P","U","T">>, <<"P","A","T","C","H">>, <<"D","E","L","E","T","E">>, <<"H","E","A","D">>, <<"O","P","T","I","O","N","S">>>>
        Compiled(i, k) ==
          /\ "item" \in DOMAIN entries[i][2]
          /\ entries[i][2].item.ops[lower[k]] # Undefined
          /\ ReadableParameters(entries[i][2].item.parameters)
          /\ ReadableParameters(entries[i][2].item.ops[lower[k]].op.parameters)
        pairs   == {q \in (DOMAIN entries) \X (1..7) : Compiled(q[1], q[2])}
        Rank(q) == Cardinality({r \in pairs : r[1] < q[1] \/ (r[1] = q[1] /\ r[2] <= q[2])})
    IN /\ Len(out) = Cardinality(pairs)
       /\ \A q \in pairs : /\ out[Rank(q)].path = entries[q[1]][1]
                           /\ out[Rank(q)].method = upper[q[2]]
       /\ pairs = {} => out = <<>>

\* Two path entries, the first with an operation that does not compile between two
\* that do.
C5_Witness ==
  /\ Applied("generateToolsFromSpec")
  /\ probe.in.paths # Undefined
  /\ Len(probe.in.paths.entries) = 2
  /\ probe.in.paths.entries[1][1] = <<"/","q","/","{","i","d","}">>
  /\ "item" \in DOMAIN probe.in.paths.entries[1][2]
  /\ probe.in.paths.entries[1][2].item.ops[<<"p","a","t","c","h">>] \in BadOperations
  /\ Len(probe.out.tools) = 3
  /\ probe.out.tools[1].method = <<"P","O","S","T">>
  /\ probe.out.tools[2].method = <<"H","E","A","D">>
  /\ probe.out.tools[2].path = <<"/","q","/","{","i","d","}">>
  /\ probe.out.tools[3].path = <<"/","p">>

----------------------------------------------------------------------------
(* Path parameters (C6) *)

\* The declared path parameters the arguments hold a value for.
SuppliedPathParameters(tool, args) ==
  {tool.parameters[i].name : i \in {j \in DOMAIN tool.parameters :
      tool.parameters[j].in = <<"p","a","t","h">> /\ Get(args, tool.parameters[j].name) # Undefined}}

\* template with every placeholder {name}, name among names, replaced by the
\* percent-encoded string of the argument.
RECURSIVE SubstituteAll(_, _, _)
SubstituteAll(template, names, args) ==
  IF template = <<>> THEN <<>>
  ELSE LET here == {n \in names : startsWith(template, <<"{">> \o n \o <<"}">>)}
       IN IF here # {}
          THEN LET n == CHOOSE x \in here : TRUE
               IN encodeURIComponent(String(Get(args, n)))
                    \o SubstituteAll(SubSeq(template, Len(n) + 3, Len(template)), names, args)
          ELSE <<Head(template)>> \o SubstituteAll(Tail(template), names, args)

Reverse(s) == [i \in DOMAIN s |-> s[Len(s) + 1 - i]]

\* C6: each {name} placeholder of a declared path parameter present in the arguments
\* is replaced by the percent-encoded string of its value, and the URL is the same
\* for every declaration order of the parameters.
C6_EveryPlaceholderReplaced ==
  Applied("buildUrl") =>
    LET tool == probe.in.tool
        args == probe.in.args
    IN /\ probe.out.str = SubstituteAll(StripTrailingSlash(tool.baseUrl) \o tool.path,
                                         SuppliedPathParameters(tool, args), args)
       /\ probe.out.str = buildUrl([tool EXCEPT !.parameters = Reverse(tool.parameters)], args)

\* The number of occurrences of sub in s.
Occurrences(s, sub) == Cardinality({i \in 1..Len(s) : startsWith(SubSeq(s, i, Len(s)), sub)})

\* The same for the URLs in which no placeholder of a supplied path parameter occurs
\* twice.
C6_PlaceholdersOccurringOnceReplaced ==
  (Applied("buildUrl")
     /\ \A n \in SuppliedPathParameters(probe.in.tool, probe.in.args) :
          Occurrences(probe.in.tool.baseUrl \o probe.in.tool.path, <<"{">> \o n \o <<"}">>) <= 1)
    => C6_EveryPlaceholderReplaced

----------------------------------------------------------------------------
(* Authentication headers (C7, C8, C9) *)

\* A field that holds a non-empty text.
HasText(field) == "str" \in DOMAIN field /\ Len(field.str) > 0

\* A descriptor with the fields its kind requires; descriptor is Undefined or
\* [desc |-> fields].
IsComplete(descriptor) ==
  /\ descriptor # Undefined
  /\ \/ descriptor.desc.type = Str(<<"b","e","a","r","e","r">>) /\ HasText(descriptor.desc.token)
     \/ descriptor.desc.type = Str(<<"a","p","i","K","e","y">>) /\ HasText(descriptor.desc.token)
                                              /\ HasText(descriptor.desc.headerName)
     \/ descriptor.desc.type = Str(<<"b","a","s","i","c">>) /\ HasText(descriptor.desc.username)
                                             /\ HasText(descriptor.desc.password)

\* The names of the declared header parameters the arguments of call c hold.
SuppliedHeaderParameters(c) ==
  LET tool == registered[c.tool].tool
  IN {tool.parameters[i].name : i \in {j \in DOMAIN tool.parameters :
        tool.parameters[j].in = <<"h","e","a","d","e","r">> /\ Get(c.args, tool.parameters[j].name) # Undefined}}

\* C7: when the descriptor of the tool's namespace is absent, of an unrecognized kind,
\* or lacks a field its kind requires, no authentication header is added and the
\* call proceeds; Petstore getPetById with petId=42 and no credentials issues
\* GET {baseUrl}/pet/42 with no Authorization header.
C7_NoHeaderWithoutCompleteDescriptor ==
  /\ (Applied("applyAuthentication") /\ ~IsComplete(probe.in.authConfig))
       => probe.out.headers = probe.in.headers
  /\ \A c \in Requests :
       ~IsComplete(calls[c].context.authConfig)
         => /\ DOMAIN calls[c].request.headers
                 = {<<"C","o","n","t","e","n","t","-","T","y","p","e">>, <<"U","s","e","r","-","A","g","e","n","t">>} \cup SuppliedHeaderParameters(calls[c])
            /\ calls[c].phase \in {"sent", "done"}
            /\ calls[c].phase = "done" => Len(calls[c].result) > 0
            /\ (/\ registered[calls[c].tool].name = <<"p","e","t","s","t","o","r","e","_","g","e","t","P","e","t","B","y","I","d">>
                /\ Get(calls[c].args, <<"p","e","t","I","d">>) = Num(<<"4","2">>))
                 => /\ calls[c].request.method = <<"g","e","t">>
                    /\ calls[c].request.url = <<"h","t","t","p","s",":","/","/","p","e","t","s","t","o","r","e","3",".","s","w","a","g","g","e","r",".","i","o","/","a","p","i","/","v","3","/","p","e","t","/","4","2">>
                    /\ <<"A","u","t","h","o","r","i","z","a","t","i","o","n">> \notin DOMAIN calls[c].request.headers

\* getPetById called with petId=42 while the environment holds no credential for
\* petstore, and answered.
C7_Witness ==
  \E c \in Requests :
    /\ registered[calls[c].tool].name = <<"p","e","t","s","t","o","r","e","_","g","e","t","P","e","t","B","y","I","d">>
    /\ calls[c].context.authConfig = Undefined
    /\ calls[c].request.url = <<"h","t","t","p","s",":","/","/","p","e","t","s","t","o","r","e","3",".","s","w","a","g","g","e","r",".","i","o","/","a","p","i","/","v","3","/","p","e","t","/","4","2">>
    /\ calls[c].phase = "done"
    /\ startsWith(calls[c].result, <<"S","t","a","t","u","s",":"," ","2","0","0"," ","O","K">>)

\* A descriptor of kind apiKey with the default header name.
IsDefaultApiKey(descriptor) ==
  /\ descriptor # Undefined
  /\ descriptor.desc.type = Str(<<"a","p","i","K","e","y">>)
  /\ descriptor.desc.headerName \in {Undefined, Str(<<"X","-","A","P","I","-","K","e","y">>)}

\* C8 as stated: for every tool whose namespace has a descriptor of kind apiKey with
\* no configured header name, the request carries X-API-Key with the stored token;
\* every apiKey descriptor the resolver produces has a token and a header name.
C8_RequestCarriesApiKey ==
  /\ \A c \in Requests :
       IsDefaultApiKey(calls[c].context.authConfig)
         => /\ <<"X","-","A","P","I","-","K","e","y">> \in DOMAIN calls[c].request.headers
            /\ calls[c].request.headers[<<"X","-","A","P","I","-","K","e","y">>] = calls[c].context.authConfig.desc.token.str
  /\ \A ns \in DOMAIN authConfig :
       authConfig[ns].type = Str(<<"a","p","i","K","e","y">>)
         => HasText(authConfig[ns].token) /\ HasText(authConfig[ns].headerName)
  /\ Applied("loadAuthConfig")
       => \A ns \in DOMAIN probe.out.map :
            probe.out.map[ns].type = Str(<<"a","p","i","K","e","y">>)
              => HasText(probe.out.map[ns].token) /\ HasText(probe.out.map[ns].headerName)

\* C8 amended: the request carries X-API-Key with the stored token unless the call
\* supplies a declared header parameter named X-API-Key, whose value then replaces
\* the token; every apiKey descriptor the resolver produces has a token and the
\* header name X-API-Key.
C8_RequestCarriesApiKeyUnlessOverridden ==
  /\ \A c \in Requests :
       IsDefaultApiKey(calls[c].context.authConfig)
         => /\ <<"X","-","A","P","I","-","K","e","y">> \in DOMAIN calls[c].request.headers
            /\ calls[c].request.headers[<<"X","-","A","P","I","-","K","e","y">>]
                 = IF <<"X","-","A","P","I","-","K","e","y">> \in SuppliedHeaderParameters(calls[c])
                   THEN String(Get(calls[c].args, <<"X","-","A","P","I","-","K","e","y">>))
                   ELSE calls[c].context.authConfig.desc.token.str
  /\ \A ns \in DOMAIN authConfig :
       authConfig[ns].type = Str(<<"a","p","i","K","e","y">>)
         => HasText(authConfig[ns].token) /\ authConfig[ns].headerName = Str(<<"X","-","A","P","I","-","K","e","y">>)
  /\ Applied("loadAuthConfig")
       => \A ns \in DOMAIN probe.out.map :
            probe.out.map[ns].type = Str(<<"a","p","i","K","e","y">>)
              => /\ HasText(probe.out.map[ns].token)
                 /\ probe.out.map[ns].headerName = Str(<<"X","-","A","P","I","-","K","e","y">>)

\* A tool of a_b.yml called without its header parameter under AB_API_KEY=k2.
C8_Witness ==
  \E c \in Requests :
    /\ calls[c].context.apiName = <<"a","b">>
    /\ IsDefaultApiKey(calls[c].context.authConfig)
    /\ calls[c].context.authConfig.desc.token = Str(<<"k","2">>)
    /\ SuppliedHeaderParameters(calls[c]) = {}
    /\ calls[c].request.headers[<<"X","-","A","P","I","-","K","e","y">>] = <<"k","2">>

\* base64 of the credentials the descriptors hold.
Base64Vectors ==
  (<<<<"u">>, <<"p">>>> :> <<"d","T","p","w">>) @@ (<<<<"u">>, <<"p","a",":","s","s">>>> :> <<"d","T","p","w","Y","T","p","z","c","w","=","=">>)
    @@ (<<<<"u","s","e","r">>, <<"p">>>> :> <<"d","X","N","l","c","j","p","w">>) @@ (<<<<"u","s","e","r">>, <<"p","a",":","s","s">>>> :> <<"d","X","N","l","c","j","p","w","Y","T","p","z","c","w","=","=">>)

\* C9: a complete descriptor is mapped to exactly one header: bearer sets
\* Authorization to "Bearer " + token, basic sets Authorization to
\* "Basic " + base64(u + ":" + p), apiKey sets the header the descriptor names to the
\* token; no other header of the base set is changed.
C9_ExactlyOneHeaderSet ==
  (Applied("applyAuthentication") /\ IsComplete(probe.in.authConfig))
    => LET d     == probe.in.authConfig.desc
           name  == IF d.type = Str(<<"a","p","i","K","e","y">>) THEN d.headerName.str ELSE <<"A","u","t","h","o","r","i","z","a","t","i","o","n">>
           value == IF d.type = Str(<<"b","e","a","r","e","r">>) THEN <<"B","e","a","r","e","r"," ">> \o d.token.str
                    ELSE IF d.type = Str(<<"a","p","i","K","e","y">>) THEN d.token.str
                    ELSE <<"B","a","s","i","c"," ">> \o Base64Vectors[<<d.username.str, d.password.str>>]
       IN /\ DOMAIN probe.out.headers = DOMAIN probe.in.headers \cup {name}
          /\ probe.out.headers[name] = value
          /\ \A h \in DOMAIN probe.in.headers :
               h # name => probe.out.headers[h] = probe.in.headers[h]

\* Basic credentials whose password holds a ":" replace an Authorization header
\* already present.
C9_Witness ==
  /\ Applied("applyAuthentication")
  /\ IsComplete(probe.in.authConfig)
  /\ probe.in.authConfig.desc.type = Str(<<"b","a","s","i","c">>)
  /\ probe.in.authConfig.desc.username = Str(<<"u","s","e","r">>)
  /\ probe.in.authConfig.desc.password = Str(<<"p","a",":","s","s">>)
  /\ <<"A","u","t","h","o","r","i","z","a","t","i","o","n">> \in DOMAIN probe.in.headers
  /\ probe.out.headers[<<"A","u","t","h","o","r","i","z","a","t","i","o","n">>] = <<"B","a","s","i","c"," ","d","X","N","l","c","j","p","w","Y","T","p","z","c","w","=","=">>
  /\ probe.out.headers[<<"U","s","e","r","-","A","g","e","n","t">>] = probe.in.headers[<<"U","s","e","r","-","A","g","e","n","t">>]

----------------------------------------------------------------------------
(* The text of a successful response (C10) *)

\* One "key: value" line per header, in the order received.
RECURSIVE HeaderLines(_)
HeaderLines(headers) ==
  IF headers = <<>> THEN <<>>
  ELSE Head(headers)[1] \o <<":"," ">> \o Head(headers)[2]
       \o (IF Len(headers) > 1 THEN <<"\n">> ELSE <<>>) \o HeaderLines(Tail(headers))

\* C10: the text of a successful response is "Status: {code} {text}", then the
\* headers one "key: value" per line in received order, then the body: the literal
\* "(empty response)" for a null or absent payload, the raw text for a string, and
\* the payload pretty-printed as JSON with two-space indentation otherwise.
C10_ResponseText ==
  Applied("formatResponse") =>
    LET data == probe.in.data
        body == IF data \in {Null, Undefined} THEN <<"(","e","m","p","t","y"," ","r","e","s","p","o","n","s","e",")">>
                ELSE IF "str" \in DOMAIN data THEN data.str
                ELSE JsonSamples[CHOOSE i \in DOMAIN JsonSamples : JsonSamples[i][1] = data][2]
    IN probe.out.str = <<"S","t","a","t","u","s",":"," ">> \o probe.in.status \o <<" ">> \o probe.in.statusText
                         \o <<"\n","\n","H","e","a","d","e","r","s",":","\n">> \o HeaderLines(probe.in.headers)
                         \o <<"\n","\n","B","o","d","y",":","\n">> \o body

\* A nested payload under two headers.
C10_Witness ==
  /\ Applied("formatResponse")
  /\ Len(probe.in.headers) = 2
  /\ probe.in.headers[1][1] = <<"x","-","r","e","q","u","e","s","t","-","i","d">>
  /\ probe.in.data = [arr |-> <<Num(<<"1">>), [arr |-> <<Num(<<"2">>)>>]>>]
  /\ probe.out.str = <<"S","t","a","t","u","s",":"," ","2","0","1"," ","C","r","e","a","t","e","d","\n","\n","H","e","a","d","e","r","s",":","\n","x","-","r","e","q","u","e","s","t","-","i","d",":"," ","7","\n","c","o","n","t","e","n","t","-","t","y","p","e",":"," ","t","e","x","t","/","p","l","a","i","n","\n","\n","B","o","d","y",":","\n","[","\n"," "," ","1",",","\n"," "," ","[","\n"," "," "," "," ","2","\n"," "," ","]","\n","]">>

----------------------------------------------------------------------------
(* The text of a failed request (C11, C12) *)

\* The bodies of the error responses, each with its JSON text at two-space indentation.
ErrorBodies ==
  << <<[obj |-> << <<<<"m","e","s","s","a","g","e">>, Str(<<"n","o","t"," ","f","o","u","n","d">>)>> >>], <<"{","\n"," "," ","\"","m","e","s","s","a","g","e","\"",":"," ","\"","n","o","t"," ","f","o","u","n","d","\"","\n","}">>>>,
     <<Str(<<>>), <<"\"","\"">>>> >>

PrettyPrinted(body) == ErrorBodies[CHOOSE i \in DOMAIN ErrorBodies : ErrorBodies[i][1] = body][2]

\* The calls that ended in a failure carrying a response.
FailedWithResponse ==
  {c \in DOMAIN calls : /\ calls[c].phase = "done"
                        /\ "error" \in DOMAIN calls[c].outcome
                        /\ calls[c].outcome.error.isAxiosError
                        /\ calls[c].outcome.error.response # Undefined}

\* C11 as stated: a non-2xx response with status S and body B gives the text
\* "HTTP Error S: " followed by B pretty-printed as JSON, whatever B is.
C11_ErrorTextIsBody ==
  \A c \in FailedWithResponse :
     LET response == calls[c].outcome.error.response
     IN calls[c].result = <<"H","T","T","P"," ","E","r","r","o","r"," ">> \o response.status.num \o <<":"," ">> \o PrettyPrinted(response.data)

\* C11: a non-2xx response with status S and body B gives the text "HTTP Error S: "
\* followed by B pretty-printed as JSON when B is not empty, and by the error's
\* message as a JSON string when B is empty; the call ends with that text.
C11_ErrorTextIsBodyOrMessage ==
  \A c \in FailedWithResponse :
     LET error    == calls[c].outcome.error
         response == error.response
     IN calls[c].result = <<"H","T","T","P"," ","E","r","r","o","r"," ">> \o response.status.num \o <<":"," ">>
                            \o (IF response.data # Str(<<>>) THEN PrettyPrinted(response.data)
                                ELSE <<"\"">> \o error.message \o <<"\"">>)

\* A 404 whose body is an object.
C11_Witness ==
  \E c \in FailedWithResponse :
     /\ calls[c].outcome.error.response.status = Num(<<"4","0","4">>)
     /\ calls[c].result = <<"H","T","T","P"," ","E","r","r","o","r"," ","4","0","4",":"," ","{","\n"," "," ","\"","m","e","s","s","a","g","e","\"",":"," ","\"","n","o","t"," ","f","o","u","n","d","\"","\n","}">>

\* The calls whose HTTP call failed without a response.
FailedWithoutResponse ==
  {c \in Requests : /\ calls[c].phase = "done"
                    /\ "error" \in DOMAIN calls[c].outcome
                    /\ calls[c].outcome.error.response = Undefined}

\* C12 as stated: an HTTP call that fails without a response gives the text
\* "Request failed: {message}", and a text of the form "HTTP Error {status}: ..."
\* comes only from a failure that carries a response.
C12_NoResponseGivesRequestFailed ==
  /\ \A c \in FailedWithoutResponse :
       calls[c].result = <<"R","e","q","u","e","s","t"," ","f","a","i","l","e","d",":"," ">> \o calls[c].outcome.error.message
  /\ \A c \in DOMAIN calls :
       (calls[c].phase = "done" /\ startsWith(calls[c].result, <<"H","T","T","P"," ","E","r","r","o","r"," ">>))
         => c \in FailedWithResponse

\* C12: an HTTP call that fails without a response gives the text
\* "HTTP Error Unknown: " followed by the message as a JSON string; a text
\* "HTTP Error {status}: ..." with a numeric status comes only from a failure that
\* carries a response, and "Request failed: {message}" only from a failure that is
\* not an error of the HTTP library, such as one thrown while building the request.
C12_NoResponseGivesHttpErrorUnknown ==
  /\ \A c \in FailedWithoutResponse :
       calls[c].result = <<"H","T","T","P"," ","E","r","r","o","r"," ","U","n","k","n","o","w","n",":"," ","\"">> \o calls[c].outcome.error.message \o <<"\"">>
  /\ \A c \in DOMAIN calls :
       calls[c].phase = "done" =>
         /\ (startsWith(calls[c].result, <<"H","T","T","P"," ","E","r","r","o","r"," ">>) /\ ~startsWith(calls[c].result, <<"H","T","T","P"," ","E","r","r","o","r"," ","U","n","k","n","o","w","n",":"," ">>))
              => c \in FailedWithResponse
         /\ startsWith(calls[c].result, <<"R","e","q","u","e","s","t"," ","f","a","i","l","e","d",":"," ">>)
              => /\ "error" \in DOMAIN calls[c].outcome
                 /\ ~calls[c].outcome.error.isAxiosError
                 /\ calls[c].result = <<"R","e","q","u","e","s","t"," ","f","a","i","l","e","d",":"," ">> \o calls[c].outcome.error.message

\* A call that ran into the timeout.
C12_Witness ==
  \E c \in FailedWithoutResponse :
     calls[c].result = <<"H","T","T","P"," ","E","r","r","o","r"," ","U","n","k","n","o","w","n",":"," ","\"","t","i","m","e","o","u","t"," ","o","f"," ","3","0","0","0","0","m","s"," ","e","x","c","e","e","d","e","d","\"">>

----------------------------------------------------------------------------
(* Every call ends with a text (C13) *)

IsResultText(text) ==
  \/ startsWith(text, <<"S","t","a","t","u","s",":"," ">>)
  \/ startsWith(text, <<"H","T","T","P"," ","E","r","r","o","r"," ">>)
  \/ startsWith(text, <<"R","e","q","u","e","s","t"," ","f","a","i","l","e","d",":"," ">>)

\* The calls that ended in a failure: of the HTTP call, or while the request was built.
Failed == {c \in DOMAIN calls : calls[c].phase = "done" /\ "error" \in DOMAIN calls[c].outcome}

\* C13: every invocation ends with a text and is never rejected, whatever the tool,
\* the arguments, the credentials and the outcome of the HTTP call, a failure while
\* building the request included; a step in which one invocation fails leaves every
\* other invocation as it was, and every invocation in flight ends eventually.
C13_EveryCallEndsWithText ==
  /\ [](\A c \in DOMAIN calls :
          /\ calls[c].phase \in {"sent", "done"}
          /\ calls[c].phase = "done" => IsResultText(calls[c].result)
          /\ calls[c].request = Undefined
               => calls[c].phase = "done" /\ calls[c].result = <<"R","e","q","u","e","s","t"," ","f","a","i","l","e","d",":"," ","U","R","I"," ","m","a","l","f","o","r","m","e","d">>)
  /\ [][\A c \in DOMAIN calls' :
          (c \in Failed' /\ (c \notin DOMAIN calls \/ c \notin Failed))
            => \A d \in DOMAIN calls' \ {c} : d \in DOMAIN calls /\ calls'[d] = calls[d]]_vars
  /\ \A c \in 1..MaxInFlight :
       [](c \in DOMAIN calls => <>(c \in DOMAIN calls /\ calls[c].phase = "done"))

\* A call that ran into the timeout, and a call made after it that was answered.
C13_Witness ==
  /\ Len(calls) = 2
  /\ calls[1].phase = "done" /\ "error" \in DOMAIN calls[1].outcome
  /\ calls[1].outcome.error.response = Undefined /\ calls[1].request # Undefined
  /\ calls[2].phase = "done" /\ "response" \in DOMAIN calls[2].outcome
  /\ startsWith(calls[2].result, <<"S","t","a","t","u","s",":"," ","2","0","0"," ","O","K">>)

----------------------------------------------------------------------------
(* The credential map after a connect (C15) *)

\* C15: once built, and after every connect, the credential map is the map resolved
\* from the credential source as that build found it (the environment the process
\* was started with and the .env file as it was then): entries changed in or
\* removed from the file are reflected, and nothing is carried over from the build
\* before.
C15_MapIsResolvedFromSource ==
  pc # "created" => authConfig = loadAuthConfig(launchEnv, envFile)

----------------------------------------------------------------------------
(* Calls and rebuilds of the credential map interleaved (C16) *)

\* The map is the scan of the whole environment, never one a scan has left half way.
C16_MapIsComplete == pc # "created" => authConfig = ScanEnv(EmptyMap, processEnv)

\* A call that starts takes the descriptor of its namespace from the map as it is
\* then; a call that exists keeps its descriptor, its tool and its request, and the
\* registered tools stay as they are.
C16_CallsKeepTheirs ==
  /\ Len(calls') >= Len(calls)
  /\ Len(calls') = Len(calls) + 1 =>
       LET c == calls'[Len(calls')]
       IN c.context.authConfig
            = (IF c.context.apiName \in DOMAIN authConfig
               THEN [desc |-> authConfig[c.context.apiName]] ELSE Undefined)
  /\ \A c \in DOMAIN calls :
       /\ calls'[c].context = calls[c].context
       /\ calls'[c].request = calls[c].request
       /\ calls'[c].args = calls[c].args
       /\ calls'[c].context.tool = registered'[calls'[c].tool].tool
  /\ \A r \in DOMAIN registered : r \in DOMAIN registered' /\ registered'[r] = registered[r]

\* C16: under any interleaving of connects and invocations an invocation sees a
\* complete credential map, the old one or the new one; its descriptor is looked up
\* once, when it starts, and neither the descriptor nor the Tool Definition is
\* changed by an invocation or a rebuild while calls are in flight.
C16_MapIsCompleteAndCallsKeepTheirs ==
  []C16_MapIsComplete /\ [][C16_CallsKeepTheirs]_vars

\* A call still in flight that started without a descriptor, beside a call that
\* started after a connect had brought one.
C16_Witness ==
  /\ Len(calls) = 2
  /\ calls[1].phase = "sent" /\ calls[1].context.authConfig = Undefined
  /\ calls[2].context.apiName = calls[1].context.apiName
  /\ calls[1].request # Undefined /\ calls[2].request # Undefined
  /\ calls[2].context.authConfig # Undefined
  /\ calls[2].context.authConfig.desc.token = Str(<<"k","9">>)
  /\ <<"X","-","A","P","I","-","K","e","y">> \in DOMAIN calls[2].request.headers
  /\ <<"X","-","A","P","I","-","K","e","y">> \notin DOMAIN calls[1].request.headers

----------------------------------------------------------------------------
(* The shape of an outbound request (C17) *)

MethodNames == {<<"G","E","T">>, <<"P","O","S","T">>, <<"P","U","T">>, <<"P","A","T","C","H">>, <<"D","E","L","E","T","E">>, <<"H","E","A","D">>, <<"O","P","T","I","O","N","S">>}

IsAbsolute(url) == startsWith(url, <<"h","t","t","p",":","/","/">>) \/ startsWith(url, <<"h","t","t","p","s",":","/","/">>)

\* The request of call c apart from the form of its URL: the method, the URL made of
\* the base URL without its trailing slash and the path template with the supplied
\* path parameters filled in, the two fixed headers, the timeout of 30 seconds, and
\* the one HTTP call it is used for.
RequestShape(c) ==
  LET tool    == calls[c].context.tool
      request == calls[c].request
      base    == IF tool.baseUrl # <<>> /\ tool.baseUrl[Len(tool.baseUrl)] = "/"
                 THEN SubSeq(tool.baseUrl, 1, Len(tool.baseUrl) - 1) ELSE tool.baseUrl
  IN /\ \E m \in MethodNames : tool.method = m /\ request.method = toLowerCase(m)
     /\ request.url = SubstituteAll(base \o tool.path,
                                    SuppliedPathParameters(tool, calls[c].args), calls[c].args)
     /\ {<<"C","o","n","t","e","n","t","-","T","y","p","e">>, <<"U","s","e","r","-","A","g","e","n","t">>} \subseteq DOMAIN request.headers
     /\ request.timeout = 30 * 1000
     /\ calls[c].phase = "sent" <=> calls[c].outcome = Pending

\* C17: every request issued for a compiled tool has a method of the seven, an
\* absolute URL (the base URL with a trailing slash stripped, then the path), headers
\* that include Content-Type and User-Agent, and a timeout of 30 seconds; a call
\* issues at most one.
C17_RequestShape ==
  \A c \in Requests : RequestShape(c) /\ IsAbsolute(calls[c].request.url)

\* The same where the document's server URL is absolute.
C17_RequestShapeUnderAbsoluteServer ==
  \A c \in Requests :
     RequestShape(c) /\ (IsAbsolute(calls[c].context.tool.baseUrl) => IsAbsolute(calls[c].request.url))

\* The calls of built-in tools that wrote a document into the specs directory.
Saved ==
  {c \in DOMAIN specCalls :
     /\ specCalls[c].tool \in {<<"s","p","e","c","b","r","i","d","g","e","_","u","p","d","a","t","e","_","s","p","e","c">>, <<"s","p","e","c","b","r","i","d","g","e","_","d","o","w","n","l","o","a","d","_","s","p","e","c">>}
     /\ \E t \in specCalls[c].touched : t[1] = "write"}

\* The tools of the documents now in the specs directory that no registered
\* Tool Definition stands for.
Unregistered ==
  UNION {LET filePath   == pathJoin(specsPath, dir[i][1])
             parsedSpec == parseOpenAPISpec(filePath, dir[i][2])
         IN IF isOpenAPIFile(dir[i][1]) /\ Truthy(parsedSpec)
            THEN {tool \in Range(parsedSpec.parsed.tools) :
                    \A r \in DOMAIN registered : registered[r].tool # tool}
            ELSE {} : i \in DOMAIN dir}

InsideSpecs(filePath) == filePath = specsPath \/ startsWith(filePath, specsPath \o <<"/">>)

\* C19: get_spec, update_spec and download_spec read, back up and write only
\* files inside the specs directory, and a call whose filename resolves to a
\* path outside it returns the access-denied error and uses no file.
C19_NothingOutsideSpecsDirectory ==
  \A c \in DOMAIN specCalls :
    /\ \A t \in specCalls[c].touched : InsideSpecs(t[2])
    /\ ~InsideSpecs(pathResolve(pathJoin(specsPath, specCalls[c].filename)))
         => specCalls[c].result = AccessDenied /\ specCalls[c].touched = {}

\* The same entries in each order of enumeration.
Reorderings(entries) ==
  {[i \in DOMAIN entries |-> entries[order[i]]] : order \in Permutations(DOMAIN entries)}

C20_SameMapInAnyOrder ==
  Applied("loadAuthConfig") =>
    \A entries \in Reorderings(probe.in.env) :
      loadAuthConfig(entries, probe.in.file) = probe.out.map

C20_InputsLeftAlone ==
  pc = "created" /\ pc' = "loading" => processEnv' = processEnv /\ envFile' = envFile

\* C20: loadAuthConfig is pure with respect to the .env file and the process
\* environment: the call start() makes leaves both as they were, and the map it
\* returns for a file and a set of environment entries is the same in whatever
\* order the entries are enumerated.
C20_ResolverIsPure == []C20_SameMapInAnyOrder /\ [][C20_InputsLeftAlone]_vars

----------------------------------------------------------------------------
(* The kind of a descriptor during one scan (C21) *)

\* The environment loadAuthConfig scans: process.env after dotenv has run.
Scanned == loadAuthConfigEnv(probe.in.env, probe.in.file)

\* The map as it is once the first k entries are scanned.
MapAfter(k) == ScanEnv(EmptyMap, SubSeq(Scanned, 1, k))

\* The namespace the k-th entry resolves to and the kind it produces; the
\* namespace is <<>> for an entry that is skipped.
Resolved(k) ==
  IF Scanned[k][2] = <<>> THEN [apiName |-> <<>>, authType |-> <<>>]
  ELSE [apiName |-> AuthPattern(Scanned[k][1]).apiName,
        authType |-> AuthPattern(Scanned[k][1]).authType]

KindAfter(k, apiName) == MapAfter(k)[apiName].type

\* C21: in one scan, an entry that produces bearer leaves the descriptor of its
\* namespace with kind bearer, whatever kind it had; a descriptor that is bearer
\* stays bearer under every later entry; and an entry that produces apiKey or
\* basic leaves the kind of an existing descriptor as it was.
C21_KindFavoursBearer ==
  Applied("loadAuthConfig") =>
    \A k \in DOMAIN Scanned :
      LET ns   == Resolved(k).apiName
          kind == Resolved(k).authType
          had  == ns \in DOMAIN MapAfter(k - 1)
      IN ns # <<>> =>
           /\ kind = <<"b","e","a","r","e","r">> => KindAfter(k, ns) = Str(<<"b","e","a","r","e","r">>)
           /\ (had /\ KindAfter(k - 1, ns) = Str(<<"b","e","a","r","e","r">>)) => KindAfter(k, ns) = Str(<<"b","e","a","r","e","r">>)
           /\ (had /\ kind # <<"b","e","a","r","e","r">>) => KindAfter(k, ns) = KindAfter(k - 1, ns)
           /\ ~had => KindAfter(k, ns) = Str(kind)
           /\ \A other \in DOMAIN MapAfter(k) \ {ns} :
                other \in DOMAIN MapAfter(k - 1) /\ MapAfter(k)[other] = MapAfter(k - 1)[other]
           /\ probe.out.map = MapAfter(Len(Scanned))

\* A scan in which a descriptor that an apiKey or basic entry created turned
\* bearer and then met another apiKey or basic entry.
C21_Witness ==
  /\ Applied("loadAuthConfig")
  /\ \E i, j, k \in DOMAIN Scanned :
       /\ i < j /\ j < k
       /\ Resolved(i).apiName # <<>>
       /\ Resolved(j).apiName = Resolved(i).apiName
       /\ Resolved(k).apiName = Resolved(i).apiName
       /\ Resolved(i).authType \in {<<"a","p","i","K","e","y">>, <<"b","a","s","i","c">>}
       /\ Resolved(j).authType = <<"b","e","a","r","e","r">>
       /\ Resolved(k).authType \in {<<"a","p","i","K","e","y">>, <<"b","a","s","i","c">>}
       /\ probe.out.map[Resolved(i).apiName].type = Str(<<"b","e","a","r","e","r">>)

----------------------------------------------------------------------------
(* The entries that produce a token descriptor (C22) *)

\* key is NAME followed by suffix, NAME of at least one character.
HasForm(key, suffix) == Len(key) > Len(suffix) /\ endsWith(key, suffix)

NameOf(key, suffix) == SubSeq(key, 1, Len(key) - Len(suffix))

\* The namespace and kind the naming convention gives the k-th scanned entry;
\* the namespace is <<>> for an entry of no token form or without a value.
Conventional(k) ==
  LET key == Scanned[k][1]
  IN IF Scanned[k][2] = <<>> THEN [apiName |-> <<>>, authType |-> <<>>]
     ELSE IF HasForm(key, <<"_","B","E","A","R","E","R","_","T","O","K","E","N">>)
     THEN [apiName |-> toLowerCase(NameOf(key, <<"_","B","E","A","R","E","R","_","T","O","K","E","N">>)), authType |-> <<"b","e","a","r","e","r">>]
     ELSE IF HasForm(key, <<"_","T","O","K","E","N">>)
     THEN [apiName |-> toLowerCase(NameOf(key, <<"_","T","O","K","E","N">>)), authType |-> <<"b","e","a","r","e","r">>]
     ELSE IF HasForm(key, <<"_","A","P","I","_","K","E","Y">>)
     THEN [apiName |-> toLowerCase(NameOf(key, <<"_","A","P","I","_","K","E","Y">>)), authType |-> <<"a","p","i","K","e","y">>]
     ELSE [apiName |-> <<>>, authType |-> <<>>]

\* The k-th entry is the only one of its namespace, by the convention and by
\* the scan.
Alone(k) ==
  \A j \in DOMAIN Scanned \ {k} :
    /\ Resolved(j).apiName # Conventional(k).apiName
    /\ Conventional(j).apiName # Conventional(k).apiName

ProducesItsDescriptor(k) ==
  LET ns == Conventional(k).apiName
  IN /\ ns \in DOMAIN probe.out.map
     /\ probe.out.map[ns].type = Str(Conventional(k).authType)
     /\ probe.out.map[ns].token = Str(Scanned[k][2])

\* C22: every entry NAME_TOKEN, NAME_BEARER_TOKEN or NAME_API_KEY with a value
\* produces, whatever NAME is, a descriptor under lowercase(NAME) that holds
\* the value as its token, of kind bearer for the first two and apiKey for
\* the third.
C22_TokenEntriesProduceDescriptors ==
  Applied("loadAuthConfig") =>
    \A k \in DOMAIN Scanned :
      (Conventional(k).apiName # <<>> /\ Alone(k)) => ProducesItsDescriptor(k)

\* The same for every NAME that does not contain BEARER.
C22_TokenEntriesProduceDescriptorsUnlessNamedBearer ==
  Applied("loadAuthConfig") =>
    \A k \in DOMAIN Scanned :
      (Conventional(k).apiName # <<>> /\ Alone(k)
         /\ ~includes(Conventional(k).apiName, <<"b","e","a","r","e","r">>)) => ProducesItsDescriptor(k)

----------------------------------------------------------------------------
(* The required flag of a parameter (C23) *)

\* An entry of a parameters list that becomes a Parameter Spec.
IsKept(paramRef) ==
  /\ "param" \in DOMAIN paramRef
  /\ Truthy(paramRef.param.in) /\ Truthy(paramRef.param.name) /\ Truthy(paramRef.param.schema)

Kept(paramRefs) == SelectSeq(paramRefs, IsKept)

\* The last parameter of a tool with the given name.
LastNamed(tool, name) ==
  tool.parameters[CHOOSE i \in DOMAIN tool.parameters :
                    /\ tool.parameters[i].name = name
                    /\ \A j \in DOMAIN tool.parameters : tool.parameters[j].name = name => j <= i]

ParameterNames(tool) == {tool.parameters[i].name : i \in DOMAIN tool.parameters}

----------------------------------------------------------------------------
(* The parts of a request (C24, C25, C26) *)

Supplied(args, name) == ~IsUndefined(Get(args, name))

\* The arguments whose name no declared parameter has.
Undeclared(tool, args) ==
  SelectSeq(args.obj, LAMBDA e : \A i \in DOMAIN tool.parameters : tool.parameters[i].name # e[1])

\* The body the precedence gives; Null stands for no body, and is what a body
\* argument of null comes to.
BodyByPrecedence(tool, args) ==
  IF Supplied(args, <<"b","o","d","y">>) THEN Get(args, <<"b","o","d","y">>)
  ELSE IF Supplied(args, <<"r","e","q","u","e","s","t","B","o","d","y">>) THEN Get(args, <<"r","e","q","u","e","s","t","B","o","d","y">>)
  ELSE IF Undeclared(tool, args) # <<>> THEN [obj |-> Undeclared(tool, args)]
  ELSE Null

\* C24: a request of a tool that declares a request body carries the argument
\* body if supplied, else the argument requestBody if supplied, else the object
\* of the arguments no declared parameter is named like, and no body when there
\* are none; a request of a tool without a request body carries no body.
C24_BodyByPrecedence ==
  Applied("buildRequestConfig") =>
    LET tool == probe.in.context.tool
        args == probe.in.args
        data == probe.out.config.data
    IN IF Truthy(tool.requestBody) /\ BodyByPrecedence(tool, args) # Null
       THEN data = BodyByPrecedence(tool, args)
       ELSE data = Undefined

\* Requests built for a call that supplies both body and requestBody, and for a
\* call that supplies neither but a name no parameter has.
C24_Witness ==
  /\ Applied("buildRequestConfig")
  /\ Truthy(probe.in.context.tool.requestBody)
  /\ \/ /\ Supplied(probe.in.args, <<"b","o","d","y">>) /\ Supplied(probe.in.args, <<"r","e","q","u","e","s","t","B","o","d","y">>)
        /\ probe.out.config.data = [obj |-> << <<<<"n","a","m","e">>, Str(<<"d","o","g","g","i","e">>)>> >>]
     \/ /\ ~Supplied(probe.in.args, <<"b","o","d","y">>) /\ ~Supplied(probe.in.args, <<"r","e","q","u","e","s","t","B","o","d","y">>)
        /\ Supplied(probe.in.args, <<"q">>)
        /\ probe.out.config.data = [obj |-> << <<<<"t","a","g">>, Str(<<"n","e","w">>)>> >>]

\* The header parameters of a tool that the arguments supply, in declared order.
SuppliedHeaders(tool, args) ==
  SelectSeq(tool.parameters, LAMBDA p : p.in = <<"h","e","a","d","e","r">> /\ Supplied(args, p.name))

\* The name and value of the authentication header a descriptor gives, <<>>
\* when it gives none.
AuthenticationHeader(stored) ==
  IF stored = Undefined THEN <<>>
  ELSE IF stored.desc.type = Str(<<"b","e","a","r","e","r">>) THEN <<<<"A","u","t","h","o","r","i","z","a","t","i","o","n">>, <<"B","e","a","r","e","r"," ">> \o stored.desc.token.str>>
  ELSE IF stored.desc.type = Str(<<"a","p","i","K","e","y">>) THEN <<stored.desc.headerName.str, stored.desc.token.str>>
  ELSE <<>>

\* C25: the headers of a request are the base headers, overlaid with the
\* authentication header, overlaid with every header parameter the arguments
\* supply: a header parameter named like a base header or like the
\* authentication header decides that header's value.
C25_HeadersOverlaidInOrder ==
  Applied("buildRequestConfig") =>
    LET tool    == probe.in.context.tool
        args    == probe.in.args
        auth    == AuthenticationHeader(probe.in.context.authConfig)
        own     == SuppliedHeaders(tool, args)
        owned   == {own[i].name : i \in DOMAIN own}
        headers == probe.out.config.headers
    IN /\ DOMAIN headers = DOMAIN BaseHeaders \cup owned \cup (IF auth = <<>> THEN {} ELSE {auth[1]})
       /\ \A name \in DOMAIN headers :
            headers[name] =
              IF name \in owned THEN String(Get(args, name))
              ELSE IF auth # <<>> /\ name = auth[1] THEN auth[2]
              ELSE BaseHeaders[name]

\* A request whose Authorization header is the supplied header parameter's,
\* not the bearer token's.
C25_Witness ==
  /\ Applied("buildRequestConfig")
  /\ probe.in.context.authConfig # Undefined
  /\ probe.in.context.authConfig.desc.type = Str(<<"b","e","a","r","e","r">>)
  /\ SuppliedHeaders(probe.in.context.tool, probe.in.args) # <<>>
  /\ probe.out.config.headers[<<"A","u","t","h","o","r","i","z","a","t","i","o","n">>] = <<"B","a","s","i","c"," ","m","i","n","e">>

\* The parts of the built request in which the value of the argument named
\* name occurs.
PartsHolding(name) ==
  LET value  == Get(probe.in.args, name)
      request == probe.out.config
  IN (IF includes(request.url, encodeURIComponent(String(value))) THEN {"url"} ELSE {})
       \cup (IF \E h \in DOMAIN request.headers : request.headers[h] = String(value)
             THEN {"headers"} ELSE {})
       \cup (IF request.params # Undefined
                /\ \E k \in DOMAIN request.params.map : request.params.map[k] = value
             THEN {"query"} ELSE {})
       \cup (IF request.data # Undefined
                /\ \/ request.data = value
                   \/ \E i \in DOMAIN request.data.obj : request.data.obj[i] = <<name, value>>
             THEN {"body"} ELSE {})

ArgumentNames == {probe.in.args.obj[i][1] : i \in DOMAIN probe.in.args.obj}

\* The declared parameters of a location that the arguments supply.
SuppliedIn(location) ==
  {p \in Range(probe.in.context.tool.parameters) :
     p.in = location /\ Supplied(probe.in.args, p.name)}

QueryMapIsTheSuppliedQueryParameters ==
  LET params == probe.out.config.params
  IN IF SuppliedIn(<<"q","u","e","r","y">>) = {} THEN params = Undefined
     ELSE /\ params # Undefined
          /\ DOMAIN params.map = {p.name : p \in SuppliedIn(<<"q","u","e","r","y">>)}
          /\ \A k \in DOMAIN params.map : params.map[k] = Get(probe.in.args, k)

\* C26: the query map of a request holds exactly the query parameters the
\* arguments supply, each with its argument; the value of a supplied cookie
\* parameter is in no part of the request; and every supplied argument is in
\* at most one part.
C26_OnePartPerArgument ==
  Applied("buildRequestConfig") =>
    /\ QueryMapIsTheSuppliedQueryParameters
    /\ \A p \in SuppliedIn(<<"c","o","o","k","i","e">>) : PartsHolding(p.name) = {}
    /\ \A name \in ArgumentNames : Cardinality(PartsHolding(name)) <= 1

\* The parts the code puts the argument named name into: one for each path,
\* query or header parameter declared under the name, and the body when the
\* precedence of the body takes the argument.
PartsDeclared(name) ==
  LET tool == probe.in.context.tool
      args == probe.in.args
      body == Truthy(tool.requestBody)
                /\ Get(args, name) # Null
                /\ \/ name = <<"b","o","d","y">>
                   \/ name = <<"r","e","q","u","e","s","t","B","o","d","y">> /\ ~Supplied(args, <<"b","o","d","y">>)
                   \/ /\ ~Supplied(args, <<"b","o","d","y">>) /\ ~Supplied(args, <<"r","e","q","u","e","s","t","B","o","d","y">>)
                      /\ \A q \in Range(tool.parameters) : q.name # name
  IN (IF \E q \in SuppliedIn(<<"p","a","t","h">>) : q.name = name THEN {"url"} ELSE {})
       \cup (IF \E q \in SuppliedIn(<<"h","e","a","d","e","r">>) : q.name = name THEN {"headers"} ELSE {})
       \cup (IF \E q \in SuppliedIn(<<"q","u","e","r","y">>) : q.name = name THEN {"query"} ELSE {})
       \cup (IF body THEN {"body"} ELSE {})

\* C26 as the code has it: an argument is in one part for every location its
\* name is declared in, and a cookie parameter puts it nowhere.
C26_OnePartPerDeclaredLocation ==
  Applied("buildRequestConfig") =>
    /\ QueryMapIsTheSuppliedQueryParameters
    /\ \A name \in ArgumentNames : PartsHolding(name) = PartsDeclared(name)

\* A request for a call that supplies a cookie parameter declared under that
\* name only, next to a query parameter: the cookie value is in no part.
C26_Witness ==
  /\ Applied("buildRequestConfig")
  /\ \E p \in SuppliedIn(<<"c","o","o","k","i","e">>) :
       /\ \A q \in Range(probe.in.context.tool.parameters) : q.name = p.name => q = p
       /\ PartsHolding(p.name) = {}
  /\ \E p \in SuppliedIn(<<"q","u","e","r","y">>) : PartsHolding(p.name) = {"query"}

----------------------------------------------------------------------------
(* Failures while loading (C27) *)

\* The name of a file whose failure parseOpenAPISpec reports as an error.
LooksLikeASpec(file) ==
  \E word \in {<<"o","p","e","n","a","p","i">>, <<"s","w","a","g","g","e","r">>, <<"a","p","i">>} : includes(toLowerCase(file), word)

\* The operations of a compiled document that compile although another one of
\* the document does not: each has its tool.
OperationsIsolated ==
  Applied("generateToolsFromSpec") =>
    \A i \in DOMAIN (IF probe.in.paths = Undefined THEN <<>> ELSE probe.in.paths.entries) :
      LET entry == probe.in.paths.entries[i]
      IN ("item" \in DOMAIN entry[2] /\ ReadableParameters(entry[2].item.parameters)) =>
           \A m \in HttpMethods :
             entry[2].item.ops[m] = GoodOperation =>
               \E t \in DOMAIN probe.out.tools :
                 /\ probe.out.tools[t].path = entry[1]
                 /\ probe.out.tools[t].method = toUpperCase(m)

\* Once the directory is loaded and before the host's first call: a document
\* that fails is in no registry and a document that parses is in both with all
\* its tools, wherever it stands in the listing and whatever the failing file
\* is called.
DocumentsIsolated ==
  (pc = "serving" /\ specCalls = <<>> /\ calls = <<>>) =>
    \A i \in DOMAIN dir :
      isOpenAPIFile(dir[i][1]) =>
        LET filePath == pathJoin(specsPath, dir[i][1])
        IN IF "doc" \in DOMAIN dir[i][2]
           THEN /\ filePath \in DOMAIN parsedSpecs
                /\ \A tool \in Range(generateToolsFromSpec(dir[i][2].doc, getApiNameFromFile(filePath))) :
                     \E r \in DOMAIN registered :
                       registered[r].tool = tool /\ registered[r].spec.filePath = filePath
           ELSE /\ filePath \notin DOMAIN parsedSpecs
                /\ \A r \in DOMAIN registered : registered[r].spec.filePath # filePath

\* C27: a failure while loading stays where it happens: an operation that
\* does not compile is left out and the other operations of its document are
\* compiled; a document that does not parse is left out and the other
\* documents are loaded and registered; the server goes on to serve; and the
\* name of the failing file makes no difference to any of it.
C27_LoadFailuresIsolated ==
  /\ OperationsIsolated
  /\ DocumentsIsolated
  /\ (existingFiles # <<>> \/ parsedSpecs # EmptyMap) => pc \in {"loading", "serving"}

\* A serving server whose directory lists a failing file called like a
\* specification before a document that is registered.
C27_Witness ==
  /\ pc = "serving"
  /\ \E i, j \in DOMAIN dir :
       /\ i < j
       /\ LooksLikeASpec(dir[i][1]) /\ isOpenAPIFile(dir[i][1])
       /\ "invalid" \in DOMAIN dir[i][2]
       /\ "doc" \in DOMAIN dir[j][2]
       /\ \E r \in DOMAIN registered :
            registered[r].spec.filePath = pathJoin(specsPath, dir[j][1])

----------------------------------------------------------------------------
(* The parameters of a tool (C28) *)

\* What a declared entry and a compiled parameter say of name, location and schema.
Declares(paramRef) ==
  <<String(paramRef.param.name), String(paramRef.param.in), paramRef.param.schema>>

Carries(parameter) == <<parameter.name, parameter.in, parameter.schema>>

\* The compiled parameters are the kept entries, one for one and in order.
AreTheKept(parameters, paramRefs) ==
  LET kept == Kept(paramRefs)
  IN /\ Len(parameters) = Len(kept)
     /\ \A i \in DOMAIN kept : Carries(parameters[i]) = Declares(kept[i])

\* C28: the parameters of a tool are the parameters declared for the path
\* followed by those declared for the operation, in the order of the document
\* and with a name that is declared twice kept twice, without exactly the
\* entries that are references or have no location, no name or no schema; an
\* entry that is dropped does not fail the operation.
C28_PathLevelThenOperationLevel ==
  /\ Applied("extractParameters") => AreTheKept(probe.out.parameters, probe.in)
  /\ Applied("generateToolsFromSpec") =>
       \A i \in DOMAIN (IF probe.in.paths = Undefined THEN <<>> ELSE probe.in.paths.entries) :
         LET entry == probe.in.paths.entries[i]
         IN "item" \in DOMAIN entry[2] =>
              \A m \in HttpMethods :
                LET operation == entry[2].item.ops[m]
                IN (/\ operation # Undefined
                    /\ ReadableParameters(entry[2].item.parameters)
                    /\ ReadableParameters(operation.op.parameters)) =>
                     \E t \in DOMAIN probe.out.tools :
                       /\ probe.out.tools[t].path = entry[1]
                       /\ probe.out.tools[t].method = toUpperCase(m)
                       /\ AreTheKept(probe.out.tools[t].parameters,
                                     Spread(entry[2].item.parameters) \o Spread(operation.op.parameters))

\* A tool compiled from a path that declares q, a reference and an entry
\* without schema, and an operation that declares q again: q is there twice,
\* the path's first.
C28_Witness ==
  /\ Applied("generateToolsFromSpec")
  /\ Truthy(probe.in.paths)
  /\ \E i \in DOMAIN probe.in.paths.entries, t \in DOMAIN probe.out.tools :
       LET entry == probe.in.paths.entries[i]
           tool  == probe.out.tools[t]
       IN /\ "item" \in DOMAIN entry[2]
          /\ Truthy(entry[2].item.parameters)
          /\ "list" \in DOMAIN entry[2].item.parameters
          /\ \E k \in DOMAIN entry[2].item.parameters.list : ~IsKept(entry[2].item.parameters.list[k])
          /\ tool.path = entry[1]
          /\ Len(tool.parameters) = 2
          /\ tool.parameters[1].name = tool.parameters[2].name
          /\ tool.parameters[1].required = Bool(TRUE)
          /\ tool.parameters[2].required = Bool(FALSE)

----------------------------------------------------------------------------
(* The validation schema (C29) *)

\* The type a fragment names, the empty text for a fragment that names none
\* or is no object.
TypeOf(fragment) ==
  IF DOMAIN fragment \cap {"undef", "null", "str", "num", "bool"} # {} THEN <<>>
  ELSE fragment.schema

\* The rule the table gives for a fragment.
RECURSIVE RuleFor(_)
RuleFor(fragment) ==
  LET type == TypeOf(fragment)
  IN IF type = <<"s","t","r","i","n","g">> THEN [zod |-> "string"]
     ELSE IF type = <<"n","u","m","b","e","r">> THEN [zod |-> "number"]
     ELSE IF type = <<"i","n","t","e","g","e","r">> THEN [zod |-> "int"]
     ELSE IF type = <<"b","o","o","l","e","a","n">> THEN [zod |-> "boolean"]
     ELSE IF type = <<"o","b","j","e","c","t">> THEN [zod |-> "record"]
     ELSE IF type = <<"a","r","r","a","y">>
          THEN [zod |-> "array",
                element |-> IF "items" \in DOMAIN fragment /\ fragment.items # Null
                            THEN RuleFor(fragment.items)
                            ELSE ZodAny]
     ELSE ZodAny

HasBodyField(tool) == Truthy(tool.requestBody)

BodyField(fields) ==
  /\ <<"b","o","d","y">> \in DOMAIN fields
  /\ fields[<<"b","o","d","y">>].rule = ZodAny
  /\ fields[<<"b","o","d","y">>].optional

\* C29: the rule of a field is the rule of the table for the parameter's
\* schema fragment (string, number, integer, boolean, a sequence of the
\* translated items or of anything, an open mapping, anything for the rest);
\* the schema of a tool has one field for each declared parameter name,
\* optional exactly when the parameter is not required, and an optional
\* accept-anything field body when the tool declares a request body.
C29_OneFieldPerParameter ==
  Applied("buildZodSchema") =>
    LET tool   == probe.in
        fields == probe.out.fields
    IN /\ DOMAIN fields = ParameterNames(tool) \cup (IF HasBodyField(tool) THEN {<<"b","o","d","y">>} ELSE {})
       /\ \A i \in DOMAIN tool.parameters :
            LET parameter == tool.parameters[i]
            IN /\ fields[parameter.name].rule = RuleFor(parameter.schema)
               /\ fields[parameter.name].optional = ~Truthy(parameter.required)
       /\ HasBodyField(tool) => BodyField(fields)

\* What holds of every tool: a name has the field of the last parameter
\* declared under it, and the name body has the field of the request body
\* when the tool declares one.
C29_OneFieldPerName ==
  Applied("buildZodSchema") =>
    LET tool   == probe.in
        fields == probe.out.fields
    IN /\ DOMAIN fields = ParameterNames(tool) \cup (IF HasBodyField(tool) THEN {<<"b","o","d","y">>} ELSE {})
       /\ \A name \in ParameterNames(tool) :
            (name # <<"b","o","d","y">> \/ ~HasBodyField(tool)) =>
              /\ fields[name].rule = RuleFor(LastNamed(tool, name).schema)
              /\ fields[name].optional = ~Truthy(LastNamed(tool, name).required)
       /\ HasBodyField(tool) => BodyField(fields)

\* A tool with a request body and a required integer parameter named body,
\* whose field body accepts anything and may be left out.
C29_RequiredParameterLost ==
  /\ Applied("buildZodSchema")
  /\ HasBodyField(probe.in)
  /\ \E i \in DOMAIN probe.in.parameters :
       /\ probe.in.parameters[i].name = <<"b","o","d","y">>
       /\ probe.in.parameters[i].required = Bool(TRUE)
       /\ probe.in.parameters[i].schema = [schema |-> <<"i","n","t","e","g","e","r">>]
  /\ probe.out.fields[<<"b","o","d","y">>].optional
  /\ probe.out.fields[<<"b","o","d","y">>].rule = ZodAny

----------------------------------------------------------------------------
(* The order of startup (C30) *)

\* --transport httpStream without a usable --port.
Contradiction == config.transportType = "httpStream" /\ ~Truthy(config.port)

NothingLoaded ==
  /\ authConfig = EmptyMap
  /\ existingFiles = <<>>
  /\ parsedSpecs = EmptyMap
  /\ registered = <<>>
  /\ builtInTools = <<>>
  /\ transport = "none"
  /\ calls = <<>>

\* The documents of the directory that parse, by file path.
Discovered ==
  {pathJoin(specsPath, dir[i][1]) :
     i \in {j \in DOMAIN dir : isOpenAPIFile(dir[j][1]) /\ "doc" \in DOMAIN dir[j][2]}}

\* Where the process stands says what has been done.
StartupStage ==
  /\ Contradiction => pc \in {"launched", "exited"}
  /\ pc \in {"launched", "exited", "created"} => NothingLoaded
  /\ pc = "exited" => Contradiction
  /\ pc = "loading" =>
       /\ transport = "none" /\ calls = <<>>
       /\ DOMAIN parsedSpecs = Discovered \ Range(existingFiles)
  /\ pc = "serving" =>
       /\ transport # "none"
       /\ existingFiles = <<>>
       /\ specCalls = <<>> => DOMAIN parsedSpecs = Discovered

\* What a step may do where.
StartupStep ==
  /\ pc = "launched" => pc' = IF Contradiction THEN "exited" ELSE "created"
  /\ pc = "exited" => UNCHANGED vars
  /\ authConfig' # authConfig => (pc = "created" /\ pc' = "loading") \/ pc = "serving"
  /\ existingFiles' # existingFiles => pc' = "loading"
  /\ (registered' # registered \/ parsedSpecs' # parsedSpecs) =>
       /\ pc' = "loading"
       /\ Cardinality(DOMAIN parsedSpecs') <= Cardinality(DOMAIN parsedSpecs) + 1
  /\ transport' # transport => pc = "loading" /\ existingFiles = <<>> /\ pc' = "serving"
  /\ (calls' # calls \/ envFile' # envFile) => pc = "serving" /\ transport # "none"

\* C30: startup has one order.  httpStream without a port ends the process
\* before a credential is read, a document loaded or a tool registered.
\* Otherwise the credential map is built first, then the discovered documents
\* are compiled and registered one document at a step, and only when none is
\* left is the transport started; connects and invocations happen only after
\* that, so they find every discovered document in the registry.
C30_StartupOrder == []StartupStage /\ [][StartupStep]_vars

\* A process started with httpStream and a port that serves two documents over
\* httpStream.
C30_Witness ==
  /\ pc = "serving"
  /\ transport = "httpStream"
  /\ config.port = Num(<<"8","0","8","0">>)
  /\ Cardinality(DOMAIN parsedSpecs) = 2
  /\ Len(registered) > 2

============================================================================
